---- MODULE Spec2Model ----
(***************************************************************************)
(* A model of quizizz/rabbit-wrapper: the Rabbit class (src/src/rabbit.ts) *)
(* and the RPC class built on it (src/src/rpc.ts).                         *)
(*                                                                         *)
(* The broker transport (amqp-connection-manager / amqplib) is the          *)
(* environment: it raises the connection and channel events the code        *)
(* listens to, runs the setup procedures the code registers, confirms or    *)
(* fails publishes and hands deliveries to the consumers the code attached. *)
(* Every handler of the code is one action: JavaScript runs a handler and   *)
(* the promise continuations it releases to completion before the next      *)
(* event is taken.                                                          *)
(***************************************************************************)
EXTENDS Integers, Sequences, FiniteSets, TLC

---------------------------------------------------------------------------
(* Bounds of the model.                                                    *)

MaxRequests == 2
MaxReplies == 2
MaxPublishes == 1
MaxChannels == 3
MaxConns == 2
MaxDisconnects == 1
MaxSubscribes == 2

---------------------------------------------------------------------------
(* Values, JSON text and queue names.                                      *)

\* A JavaScript value, as far as the code distinguishes values.
Obj(r) == [type |-> "object", repr |-> r]
Str(r) == [type |-> "string", repr |-> r]
Undefined == [type |-> "undefined", repr |-> ""]

\* The payload on the wire is text, kept as a sequence of tokens.
\* <<"{", "r=1", "}">> is the JSON object {r: 1}; <<"\"", "hi", "\"">> is the
\* JSON string "hi"; anything else is not JSON.
RECURSIVE Join(_)
Join(t) == IF t = <<>> THEN "" ELSE Head(t) \o Join(Tail(t))

\* JSON.stringify of the channel (json: true): the text of a value.
JSONstringify(v) ==
    IF v.type = "object" THEN <<"{", v.repr, "}">> ELSE <<"\"", v.repr, "\"">>

IsJSON(t) ==
    /\ Len(t) = 3
    /\ \/ t[1] = "{" /\ t[3] = "}"
       \/ t[1] = "\"" /\ t[3] = "\""

\* A faulty decoder: text that is not JSON decodes to undefined.
safeJSONOrUndefined(t) ==
    IF IsJSON(t)
    THEN (IF t[1] = "{" THEN Obj(t[2]) ELSE Str(t[2]))
    ELSE Undefined

\* safely-parse-json: JSON.parse, and the input itself when that throws.
safeJSON(t) ==
    IF IsJSON(t)
    THEN (IF t[1] = "{" THEN Obj(t[2]) ELSE Str(t[2]))
    ELSE Str(Join(t))

\* RPC config: the request and the reply queue.
RequestQueue == "rpc_req"
ReplyQueue == "rpc_rep"
OtherQueue == "test"
QueueNames == {RequestQueue, ReplyQueue, OtherQueue}

\* The message body an application sends (the code never looks inside it).
Messages == {Obj("a=1")}

\* Payloads a responder puts on the reply queue; the last one is not JSON.
ReplyPayloads == {<<"{", "r=1", "}">>, <<"oops">>}

\* Queue options (Options.AssertQueue) and createQueue's defaults.
DefaultOpts == [durable |-> TRUE, autoDelete |-> FALSE]

\* A faulty uuid(): the same identifier on every call.
uuidFixed(n) == "uuid-1"

\* uuid(): version 4 identifiers; the n-th call returns the n-th value of a
\* sequence of pairwise different identifiers.
uuid(n) == "uuid-" \o ToString(n)

\* Correlation ids a reply can carry that uuid() never returns: a message with
\* no correlationId property (the lookup key is then "undefined", an id no
\* request was given), and the name of a function every JavaScript object
\* inherits from Object.prototype.
MissingCid == "undefined"
ForeignCids == {MissingCid, "toString"}
InheritedFunctions == {"toString"}

---------------------------------------------------------------------------
(* State.                                                                  *)

VARIABLES
    client,     \* Rabbit.client: 0 (null) or the index of a connection
    channel,    \* Rabbit.channel: 0 (null) or the index of the global channel
    queues,     \* Rabbit.queues: queue name -> 0 (absent) or a registry object
    qobjs,      \* the registry objects: [channel |-> 0 (unset) or a channel]
    conns,      \* the connections amqp.connect returned
    chans,      \* the channel wrappers createChannel returned
    broker,     \* the broker's queues: name -> [exists, opts, msgs]
    outbox,     \* every message handed to sendToQueue
    callbacks,  \* RPC.callbacks: correlation id -> resolver (request index)
    reqs,       \* the promises request() returned
    rpcInit,    \* the RPC.init() call
    counters,   \* how often the environment has acted (bounds), and how many
                \* consumers the broker has cancelled
    last        \* the last operation: its inputs, effects in order, result

vars == <<client, channel, queues, qobjs, conns, chans, broker, outbox,
          callbacks, reqs, rpcInit, counters, last>>

NoEvent == [op |-> "", arg |-> "", cid |-> "", content |-> Undefined,
            fx |-> <<>>, result |-> "", handle |-> TRUE]

Event(op, arg, cid, content, fx, result) ==
    [op |-> op, arg |-> arg, cid |-> cid, content |-> content,
     fx |-> fx, result |-> result, handle |-> TRUE]

\* How many times effect e occurs in the effects fx of an operation.
RECURSIVE Count(_, _)
Count(fx, e) ==
    IF fx = <<>> THEN 0
    ELSE (IF Head(fx) = e THEN 1 ELSE 0) + Count(Tail(fx), e)

\* The position of the first e in fx, 0 when there is none.
RECURSIVE IndexOf(_, _)
IndexOf(fx, e) ==
    IF fx = <<>> THEN 0
    ELSE IF Head(fx) = e THEN 1
    ELSE (IF IndexOf(Tail(fx), e) = 0 THEN 0 ELSE 1 + IndexOf(Tail(fx), e))

Init ==
    /\ client = 0
    /\ channel = 0
    /\ queues = [q \in QueueNames |-> 0]
    /\ qobjs = <<>>
    /\ conns = <<>>
    /\ chans = <<>>
    /\ broker = [q \in QueueNames |->
                   [exists |-> FALSE, opts |-> DefaultOpts, msgs |-> <<>>]]
    /\ outbox = <<>>
    /\ callbacks = <<>>
    /\ reqs = <<>>
    /\ rpcInit = [pc |-> "idle", requestQ |-> 0, replyQ |-> 0,
                  reqChan |-> 0, repChan |-> 0]
    /\ counters = [replies |-> 0, publishes |-> 0, disconnects |-> 0, tags |-> 0,
                   cancels |-> 0]
    /\ last = NoEvent

---------------------------------------------------------------------------
(* The transport's objects.                                                *)

\* A setup procedure registered on a channel wrapper: createQueue's (prefetch
\* and assertQueue) or subscribe's (consume with a callback; obj is the
\* registry object q the callback closes over).
AssertSetup(q, opts) ==
    [kind |-> "assert", queue |-> q, opts |-> opts, cb |-> "", obj |-> 0]
ConsumeSetup(q, cb, obj) ==
    [kind |-> "consume", queue |-> q, opts |-> DefaultOpts, cb |-> cb, obj |-> obj]

\* client.createChannel(opts): a wrapper with no raw channel yet. settled is
\* the state of the promise makeChannel returned for it.
NewChannel(name, conn, owner, setups) ==
    [name |-> name, conn |-> conn, owner |-> owner, up |-> FALSE,
     settled |-> "pending", setups |-> setups, consumers |-> <<>>,
     prefetch |-> 0]

\* A faulty broker: assertQueue is refused for every queue that exists.
AssertOkFresh(brk, s) == ~brk[s.queue].exists

\* assertQueue succeeds on a queue that does not exist or has these options.
AssertOk(brk, s) == ~brk[s.queue].exists \/ brk[s.queue].opts = s.opts

SetupsOk(brk, setups) ==
    \A i \in 1..Len(setups) : setups[i].kind = "assert" => AssertOk(brk, setups[i])

\* A faulty transport: a new raw channel gets the queue and the prefetch
\* again, and no consumer.
RECURSIVE RunSetupsAssertOnly(_, _)
RunSetupsAssertOnly(setups, acc) ==
    IF setups = <<>> THEN acc
    ELSE LET s == Head(setups) IN
         IF s.kind = "assert"
         THEN RunSetupsAssertOnly(Tail(setups),
                [acc EXCEPT !.prefetch = 1,
                            !.broker[s.queue].exists = TRUE,
                            !.broker[s.queue].opts = s.opts])
         ELSE RunSetupsAssertOnly(Tail(setups), acc)

\* The transport runs the wrapper's setup procedures, in the order they were
\* registered, on a new raw channel of wrapper c.
RECURSIVE RunSetups(_, _)
RunSetups(setups, acc) ==
    IF setups = <<>> THEN acc
    ELSE LET s == Head(setups) IN
         IF s.kind = "assert"
         THEN RunSetups(Tail(setups),
                [acc EXCEPT !.prefetch = 1,
                            !.broker[s.queue].exists = TRUE,
                            !.broker[s.queue].opts = s.opts])
         ELSE RunSetups(Tail(setups),
                [acc EXCEPT !.tags = @ + 1,
                            !.consumers = Append(@,
                               [tag |-> acc.tags + 1, queue |-> s.queue,
                                cb |-> s.cb, obj |-> s.obj, unacked |-> <<>>])])

\* The unacknowledged deliveries of queue q on a list of consumers.
RECURSIVE UnackedOf(_, _)
UnackedOf(consumers, q) ==
    IF consumers = <<>> THEN <<>>
    ELSE (IF Head(consumers).queue = q THEN Head(consumers).unacked ELSE <<>>)
         \o UnackedOf(Tail(consumers), q)

RECURSIVE UnackedOnConn(_, _, _)
UnackedOnConn(chs, k, q) ==
    IF chs = <<>> THEN <<>>
    ELSE (IF Head(chs).conn = k THEN UnackedOf(Head(chs).consumers, q) ELSE <<>>)
         \o UnackedOnConn(Tail(chs), k, q)

---------------------------------------------------------------------------
(* Rabbit (src/src/rabbit.ts): the methods, as functions of the state they *)
(* read to the state they leave.                                           *)

\* makeChannel(op): createChannel on this.client and a pending promise. With
\* this.client null, createChannel throws inside the promise's executor and
\* the promise is rejected at once.
makeChannel(chs, cl, name, owner, setups) ==
    IF cl = 0
    THEN [threw |-> TRUE, chans |-> chs, id |-> 0]
    ELSE [threw |-> FALSE,
          chans |-> Append(chs, NewChannel(name, cl, owner, setups)),
          id |-> Len(chs) + 1]

\* A faulty createQueue: the defaults override the caller's options.
createQueueDefaultsWin(qs, objs, chs, cl, queueName, op, owner) ==
    LET mk == makeChannel(chs, cl, queueName, owner,
                          <<AssertSetup(queueName, DefaultOpts)>>)
    IN [queues |-> [qs EXCEPT ![queueName] = Len(objs) + 1],
        qobjs |-> Append(objs, [channel |-> 0]),
        chans |-> mk.chans,
        threw |-> mk.threw,
        id |-> mk.id]

\* createQueue(queueName, op) up to its await: the registry gets a fresh
\* object for the name, then makeChannel is called with the setup procedure.
createQueue(qs, objs, chs, cl, queueName, op, owner) ==
    LET opts == op @@ DefaultOpts
        mk == makeChannel(chs, cl, queueName, owner,
                          <<AssertSetup(queueName, opts)>>)
    IN [queues |-> [qs EXCEPT ![queueName] = Len(objs) + 1],
        qobjs |-> Append(objs, [channel |-> 0]),
        chans |-> mk.chans,
        threw |-> mk.threw,
        id |-> mk.id]

\* createQueue after its await: the channel is stored in whatever object the
\* registry holds for the name by then.
createQueueResume(qs, objs, queueName, c) ==
    [objs EXCEPT ![qs[queueName]].channel = c]

\* A faulty subscribe: for a name the registry does not hold, the consume
\* procedure is registered on the global channel.
subscribeOrGlobal(qs, objs, chs, tags, qid, cb) ==
    LET q == qs[qid]
        c == IF q = 0 THEN channel ELSE objs[q].channel
    IN IF c = 0
       THEN [threw |-> TRUE, chans |-> chs, tags |-> tags]
       ELSE [threw |-> FALSE,
             chans |-> [chs EXCEPT
                ![c].setups = Append(@, ConsumeSetup(qid, cb, q)),
                ![c].consumers =
                    IF chs[c].up
                    THEN Append(@, [tag |-> tags + 1, queue |-> qid, cb |-> cb,
                                    obj |-> q, unacked |-> <<>>])
                    ELSE @],
             tags |-> IF chs[c].up THEN tags + 1 ELSE tags]

\* A faulty subscribe: consume is called on the raw channel of the moment and
\* no setup procedure is registered.
subscribeOnce(qs, objs, chs, tags, qid, cb) ==
    LET q == qs[qid]
        c == IF q = 0 THEN 0 ELSE objs[q].channel
    IN IF c = 0
       THEN [threw |-> TRUE, chans |-> chs, tags |-> tags]
       ELSE [threw |-> FALSE,
             chans |-> [chs EXCEPT
                ![c].consumers =
                    IF chs[c].up
                    THEN Append(@, [tag |-> tags + 1, queue |-> qid, cb |-> cb,
                                    obj |-> q, unacked |-> <<>>])
                    ELSE @],
             tags |-> IF chs[c].up THEN tags + 1 ELSE tags]

\* subscribe(qid, cb): q = this.queues[qid]; q.channel.addSetup(consume).
\* Reading q.channel of a missing q, or addSetup of a missing channel, throws.
\* addSetup keeps the procedure and, when the wrapper has a raw channel, runs
\* it at once: the consumer is attached under a tag of the broker's choosing.
subscribe(qs, objs, chs, tags, qid, cb) ==
    LET q == qs[qid]
        c == IF q = 0 THEN 0 ELSE objs[q].channel
    IN IF c = 0
       THEN [threw |-> TRUE, chans |-> chs, tags |-> tags]
       ELSE [threw |-> FALSE,
             chans |-> [chs EXCEPT
                ![c].setups = Append(@, ConsumeSetup(qid, cb, q)),
                ![c].consumers =
                    IF chs[c].up
                    THEN Append(@, [tag |-> tags + 1, queue |-> qid, cb |-> cb,
                                    obj |-> q, unacked |-> <<>>])
                    ELSE @],
             tags |-> IF chs[c].up THEN tags + 1 ELSE tags]

\* A faulty lookup: an unknown queue falls back to the global channel, the
\* way send() works.
PublishChannelOrGlobal(qs, objs, qid) ==
    IF qs[qid] = 0 THEN channel ELSE objs[qs[qid]].channel

\* The wrapper publish() takes for a queue name: q.channel of the registry
\* entry, 0 when reading it throws (no entry, or an entry with no channel).
PublishChannel(qs, objs, qid) ==
    IF qs[qid] = 0 THEN 0 ELSE objs[qs[qid]].channel

\* publish(qid, message, options, handle) up to its await: sendToQueue on the
\* queue's wrapper, which serialises the message and keeps it until the
\* broker confirms it.
publish(qs, objs, ob, qid, message, options, handle, by) ==
    LET c == PublishChannel(qs, objs, qid)
    IN IF c = 0
       THEN [threw |-> TRUE, outbox |-> ob, fx |-> <<"throw">>]
       ELSE [threw |-> FALSE,
             outbox |-> Append(ob,
                [chan |-> c, queue |-> qid, cid |-> options.correlationId,
                 replyTo |-> options.replyTo,
                 payload |-> JSONstringify(message),
                 handle |-> handle, by |-> by, state |-> "unconfirmed"]),
             fx |-> <<"sendToQueue">>]

\* A faulty send: the channel is looked up in the registry, as publish does.
sendViaRegistry(gl, ob, qname, message, options, handle) ==
    publish(queues, qobjs, ob, qname, message, options, handle, "send")

\* send(qname, message, options, handle) up to its return: sendToQueue on the
\* global channel, whatever the registry holds. send is not an async function:
\* with this.channel null, reading sendToQueue throws out of the call.
send(gl, ob, qname, message, options, handle) ==
    IF gl = 0
    THEN [threw |-> TRUE, outbox |-> ob, fx |-> <<"throw">>]
    ELSE [threw |-> FALSE,
          outbox |-> Append(ob,
             [chan |-> gl, queue |-> qname, cid |-> options.correlationId,
              replyTo |-> options.replyTo,
              payload |-> JSONstringify(message),
              handle |-> handle, by |-> "send", state |-> "unconfirmed"]),
          fx |-> <<"sendToQueue">>]

NoOptions == [correlationId |-> MissingCid, replyTo |-> ""]

---------------------------------------------------------------------------
(* RPC (src/src/rpc.ts).                                                   *)

\* A promise request() returned: resolve settles it the first time it is
\* called; calls counts the invocations of the resolver.
NewRequest(cid) ==
    [cid |-> cid, state |-> "PENDING", value |-> Undefined, calls |-> 0]

Resolve(rq, idx, value) ==
    [rq EXCEPT ![idx] =
        [@ EXCEPT !.calls = @ + 1,
                  !.state = "RESOLVED",
                  !.value = IF rq[idx].state = "PENDING" THEN value ELSE @]]

\* this.callbacks[correlationId] on the object literal {}: an own property
\* when request() stored one, else what Object.prototype provides, else
\* undefined.
Lookup(cbs, cid) ==
    IF cid \in DOMAIN cbs THEN [kind |-> "resolver", idx |-> cbs[cid]]
    ELSE IF cid \in InheritedFunctions THEN [kind |-> "function", idx |-> 0]
    ELSE [kind |-> "undefined", idx |-> 0]

\* A faulty delete: the entries of older requests go with the one deleted.
DeleteThrough(cbs, cid) ==
    IF cid \in DOMAIN cbs
    THEN [c \in {d \in DOMAIN cbs : cbs[d] > cbs[cid]} |-> cbs[c]]
    ELSE cbs

Delete(cbs, cid) == [c \in DOMAIN cbs \ {cid} |-> cbs[c]]

\* Faulty callbacks. Each differs from onReply below in one respect.
\* The entry is not deleted after the resolver was called.
onReplyKeepEntry(cbs, rq, msg) ==
    LET cb == Lookup(cbs, msg.correlationId) IN
    IF cb.kind = "resolver"
    THEN [callbacks |-> cbs, reqs |-> Resolve(rq, cb.idx, msg.content),
          fx |-> <<"ack", "resolve">>]
    ELSE [callbacks |-> cbs, reqs |-> rq, fx |-> <<"ack", "error">>]

\* The oldest entry is resolved, whatever correlation id the reply carries.
onReplyByArrival(cbs, rq, msg) ==
    IF DOMAIN cbs = {}
    THEN [callbacks |-> cbs, reqs |-> rq, fx |-> <<"ack", "error">>]
    ELSE LET cid == CHOOSE c \in DOMAIN cbs : \A d \in DOMAIN cbs : cbs[c] <= cbs[d]
         IN [callbacks |-> Delete(cbs, cid),
             reqs |-> Resolve(rq, cbs[cid], msg.content),
             fx |-> <<"ack", "resolve", "delete">>]

\* A reply is matched only when its request is the oldest one outstanding.
onReplyHeadOfLine(cbs, rq, msg) ==
    LET cid == msg.correlationId IN
    IF cid \in DOMAIN cbs /\ \A d \in DOMAIN cbs : cbs[cid] <= cbs[d]
    THEN [callbacks |-> Delete(cbs, cid),
          reqs |-> Resolve(rq, cbs[cid], msg.content),
          fx |-> <<"ack", "resolve", "delete">>]
    ELSE [callbacks |-> cbs, reqs |-> rq, fx |-> <<"ack", "error">>]

\* The delivery is acknowledged only after a successful lookup.
onReplyAckOnMatch(cbs, rq, msg) ==
    LET cb == Lookup(cbs, msg.correlationId) IN
    IF cb.kind = "resolver"
    THEN [callbacks |-> Delete(cbs, msg.correlationId),
          reqs |-> Resolve(rq, cb.idx, msg.content),
          fx |-> <<"resolve", "delete", "ack">>]
    ELSE [callbacks |-> cbs, reqs |-> rq, fx |-> <<"error">>]

\* An unmatched reply makes the engine drop every outstanding entry.
onReplySweep(cbs, rq, msg) ==
    LET cb == Lookup(cbs, msg.correlationId) IN
    IF cb.kind = "resolver"
    THEN [callbacks |-> Delete(cbs, msg.correlationId),
          reqs |-> Resolve(rq, cb.idx, msg.content),
          fx |-> <<"ack", "resolve", "delete">>]
    ELSE [callbacks |-> <<>>, reqs |-> rq, fx |-> <<"ack", "error">>]

\* The callback RPC.subscribe hands to rabbit.subscribe, applied to a decoded
\* delivery msg: the table and promises it leaves and its effects in order.
onReply(cbs, rq, msg) ==
    LET cb == Lookup(cbs, msg.correlationId) IN
    CASE cb.kind = "undefined" ->
            [callbacks |-> cbs, reqs |-> rq, fx |-> <<"ack", "error">>]
      [] cb.kind = "resolver" ->
            [callbacks |-> Delete(cbs, msg.correlationId),
             reqs |-> Resolve(rq, cb.idx, msg.content),
             fx |-> <<"ack", "resolve", "delete">>]
      [] cb.kind = "function" ->
            [callbacks |-> cbs, reqs |-> rq, fx |-> <<"ack", "call", "delete">>]

\* A faulty request(): the message is published before the resolver is stored.
requestPublishFirst(cbs, rq, qs, objs, ob, n, message) ==
    LET correlationId == uuid(n)
        pub == publish(qs, objs, ob, RequestQueue, message,
                       [correlationId |-> correlationId, replyTo |-> ReplyQueue],
                       TRUE, "rpc")
    IN [callbacks |-> (correlationId :> n) @@ cbs,
        reqs |-> Append(rq, NewRequest(correlationId)),
        outbox |-> pub.outbox,
        cid |-> correlationId,
        fx |-> pub.fx \o <<"register">>]

\* A faulty request(): a publish that throws rejects the promise and no
\* resolver stays behind.
requestRejectOnThrow(cbs, rq, qs, objs, ob, n, message) ==
    LET correlationId == uuid(n)
        pub == publish(qs, objs, ob, RequestQueue, message,
                       [correlationId |-> correlationId, replyTo |-> ReplyQueue],
                       TRUE, "rpc")
    IN [callbacks |-> IF pub.threw THEN cbs ELSE (correlationId :> n) @@ cbs,
        reqs |-> Append(rq, IF pub.threw
                            THEN [NewRequest(correlationId) EXCEPT !.state = "REJECTED"]
                            ELSE NewRequest(correlationId)),
        outbox |-> pub.outbox,
        cid |-> correlationId,
        fx |-> <<"register">> \o pub.fx]

\* request(message), the n-th call: a fresh correlation id, the resolver
\* stored under it, then publish to the request queue (its promise is dropped).
request(cbs, rq, qs, objs, ob, n, message) ==
    LET correlationId == uuid(n)
        pub == publish(qs, objs, ob, RequestQueue, message,
                       [correlationId |-> correlationId, replyTo |-> ReplyQueue],
                       TRUE, "rpc")
    IN [callbacks |-> (correlationId :> n) @@ cbs,
        reqs |-> Append(rq, NewRequest(correlationId)),
        outbox |-> pub.outbox,
        cid |-> correlationId,
        fx |-> <<"register">> \o pub.fx]

\* A faulty wait: init() goes on as soon as one createQueue call has returned.
initReadyEither(chs, ri) ==
    /\ ri.pc = "creating"
    /\ \/ chs[ri.reqChan].settled = "resolved"
       \/ chs[ri.repChan].settled = "resolved"

\* Promise.all of init(): fulfilled when both createQueue calls have returned.
initReady(chs, ri) ==
    /\ ri.pc = "creating"
    /\ chs[ri.reqChan].settled = "resolved"
    /\ chs[ri.repChan].settled = "resolved"

\* init() after Promise.all: requestQ and replyQ are stored and the reply
\* queue is subscribed to; a throw of subscribe rejects init().
initResume(qs, objs, chs, tags, ri) ==
    LET sub == subscribe(qs, objs, chs, tags, ReplyQueue, "rpc")
    IN [chans |-> sub.chans,
        tags |-> sub.tags,
        rpcInit |-> [ri EXCEPT !.pc = IF sub.threw THEN "rejected" ELSE "done",
                               !.requestQ = ri.reqChan,
                               !.replyQ = ri.repChan]]

---------------------------------------------------------------------------
(* Actions: the calls of the application and the events of the transport.  *)

\* Rabbit.init(): resolved at once when there is a client, else
\* makeConnection() calls amqp.connect and waits for its first event.
RabbitInit ==
    /\ IF client # 0
       THEN /\ last' = Event("init", "", "", Undefined, <<>>, "resolved")
            /\ UNCHANGED conns
       ELSE /\ Len(conns) < MaxConns
            /\ conns' = Append(conns, [state |-> "connecting", settled |-> "pending"])
            /\ last' = Event("init", "", "", Undefined, <<"log", "connect">>, "pending")
    /\ UNCHANGED <<client, channel, queues, qobjs, chans, broker, outbox,
                   callbacks, reqs, rpcInit, counters>>

\* The connection's 'connect' event: a success event and resolve(connection).
\* The first settlement resumes init(): the client is stored and the global
\* channel is asked for.
ConnConnect(k) ==
    /\ k \in 1..Len(conns)
    /\ conns[k].state # "connected"
    /\ LET first == conns[k].settled = "pending"
           mk == makeChannel(chans, k, "global", "init", <<>>)
       IN /\ first => Len(chans) < MaxChannels
          /\ conns' = [conns EXCEPT ![k].state = "connected",
                                    ![k].settled = IF first THEN "resolved" ELSE @]
          /\ client' = IF first THEN k ELSE client
          /\ chans' = IF first THEN mk.chans ELSE chans
          /\ last' = Event("conn.connect", "", "", Undefined,
                           IF first THEN <<"success", "resolve", "createChannel">>
                           ELSE <<"success">>, "")
    /\ UNCHANGED <<channel, queues, qobjs, broker, outbox, callbacks, reqs,
                   rpcInit, counters>>

\* A faulty listener: a disconnect is reported only while init() is waiting.
ConnDisconnectQuiet(k) ==
    /\ k \in 1..Len(conns)
    /\ conns[k].state # "disconnected"
    /\ counters.disconnects < MaxDisconnects
    /\ LET first == conns[k].settled = "pending"
       IN /\ conns' = [conns EXCEPT ![k].state = "disconnected",
                                    ![k].settled = IF first THEN "rejected" ELSE @]
          /\ last' = Event("conn.disconnect", "", "", Undefined,
                           IF first THEN <<"error", "reject">> ELSE <<>>,
                           IF first THEN "init rejected" ELSE "")
    /\ chans' = [c \in 1..Len(chans) |->
                   IF chans[c].conn = k
                   THEN [chans[c] EXCEPT !.up = FALSE, !.consumers = <<>>]
                   ELSE chans[c]]
    /\ broker' = [q \in QueueNames |->
                   [broker[q] EXCEPT !.msgs = UnackedOnConn(chans, k, q) \o @]]
    /\ counters' = [counters EXCEPT !.disconnects = @ + 1]
    /\ UNCHANGED <<client, channel, queues, qobjs, outbox, callbacks, reqs, rpcInit>>

\* The connection's 'disconnect' event: an error event and reject(err). Every
\* raw channel of the connection is gone; the broker requeues what they had
\* delivered and not seen acknowledged.
ConnDisconnect(k) ==
    /\ k \in 1..Len(conns)
    /\ conns[k].state # "disconnected"
    /\ counters.disconnects < MaxDisconnects
    /\ LET first == conns[k].settled = "pending"
       IN /\ conns' = [conns EXCEPT ![k].state = "disconnected",
                                    ![k].settled = IF first THEN "rejected" ELSE @]
          /\ last' = Event("conn.disconnect", "", "", Undefined,
                           IF first THEN <<"error", "reject">> ELSE <<"error">>,
                           IF first THEN "init rejected" ELSE "")
    /\ chans' = [c \in 1..Len(chans) |->
                   IF chans[c].conn = k
                   THEN [chans[c] EXCEPT !.up = FALSE, !.consumers = <<>>]
                   ELSE chans[c]]
    /\ broker' = [q \in QueueNames |->
                   [broker[q] EXCEPT !.msgs = UnackedOnConn(chans, k, q) \o @]]
    /\ counters' = [counters EXCEPT !.disconnects = @ + 1]
    /\ UNCHANGED <<client, channel, queues, qobjs, outbox, callbacks, reqs, rpcInit>>

\* The wrapper's 'connect' event: the transport has opened a raw channel and
\* run the setup procedures on it. A log event and resolve(channel); the first
\* settlement resumes whoever awaits makeChannel: Rabbit.init stores the global
\* channel, createQueue stores the channel in the registry and returns it, and
\* RPC.init goes on once both its createQueue calls have returned.
ChanConnect(c) ==
    /\ c \in 1..Len(chans)
    /\ ~chans[c].up
    /\ conns[chans[c].conn].state = "connected"
    /\ SetupsOk(broker, chans[c].setups)
    /\ LET ch == chans[c]
           first == ch.settled = "pending"
           ran == RunSetups(ch.setups,
                    [broker |-> broker, tags |-> counters.tags,
                     consumers |-> <<>>, prefetch |-> 0])
           chans1 == [chans EXCEPT ![c].up = TRUE,
                                   ![c].settled = IF first THEN "resolved" ELSE @,
                                   ![c].consumers = ran.consumers,
                                   ![c].prefetch = ran.prefetch]
           qobjs1 == IF first /\ ch.owner \in {"app", "rpc"}
                     THEN createQueueResume(queues, qobjs, ch.name, c)
                     ELSE qobjs
           all == first /\ ch.owner = "rpc" /\ initReady(chans1, rpcInit)
           res == initResume(queues, qobjs1, chans1, ran.tags, rpcInit)
       IN /\ chans' = IF all THEN res.chans ELSE chans1
          /\ qobjs' = qobjs1
          /\ rpcInit' = IF all THEN res.rpcInit ELSE rpcInit
          /\ counters' = [counters EXCEPT !.tags = IF all THEN res.tags ELSE ran.tags]
          /\ broker' = ran.broker
          /\ channel' = IF first /\ ch.owner = "init" THEN c ELSE channel
          /\ last' = Event("chan.connect", ch.name, "", Undefined,
                           IF first THEN <<"log", "resolve">> ELSE <<"log">>,
                           IF all THEN res.rpcInit.pc ELSE "")
    /\ UNCHANGED <<client, queues, conns, outbox, callbacks, reqs>>

\* A faulty listener: the failure is reported but the promise is left pending.
ChanFailEventOnly(c, kind, hasErr) ==
    /\ c \in 1..Len(chans)
    /\ chans[c].settled = "pending"
    /\ last' = Event("chan." \o kind, chans[c].name, "", Undefined,
                     IF hasErr THEN <<"error">> ELSE <<>>, "")
    /\ UNCHANGED <<client, channel, queues, qobjs, conns, chans, broker, outbox,
                   callbacks, reqs, rpcInit, counters>>

\* The wrapper's 'error' or 'close' event, with or without an error object:
\* an error event when there is one, and reject(err). The first settlement
\* fails whoever awaits makeChannel.
ChanFail(c, kind, hasErr) ==
    /\ c \in 1..Len(chans)
    /\ chans[c].settled = "pending"
    /\ LET ch == chans[c]
           first == ch.settled = "pending"
       IN /\ chans' = [chans EXCEPT ![c].settled = IF first THEN "rejected" ELSE @]
          /\ rpcInit' = IF first /\ ch.owner = "rpc" /\ rpcInit.pc = "creating"
                        THEN [rpcInit EXCEPT !.pc = "rejected"]
                        ELSE rpcInit
          /\ last' = Event("chan." \o kind, ch.name, "", Undefined,
                           (IF hasErr THEN <<"error">> ELSE <<>>)
                             \o (IF first THEN <<"reject">> ELSE <<>>),
                           IF first THEN "rejected" ELSE "")
    /\ UNCHANGED <<client, channel, queues, qobjs, conns, broker, outbox,
                   callbacks, reqs, counters>>

\* A faulty listener: an 'error' or 'close' event after the promise was
\* settled settles it again.
ChanNotifyResettle(c, kind, hasErr) ==
    /\ c \in 1..Len(chans)
    /\ chans[c].settled # "pending"
    /\ chans' = [chans EXCEPT ![c].settled = "rejected"]
    /\ last' = Event("chan." \o kind, chans[c].name, "", Undefined,
                     IF hasErr THEN <<"error", "reject">> ELSE <<"reject">>, "")
    /\ UNCHANGED <<client, channel, queues, qobjs, conns, broker, outbox,
                   callbacks, reqs, rpcInit, counters>>

\* The wrapper's 'error' or 'close' event after the promise of makeChannel
\* was settled: an error event when there is an error object; reject(err) is
\* called and does nothing.
ChanNotify(c, kind, hasErr) ==
    /\ c \in 1..Len(chans)
    /\ chans[c].settled # "pending"
    /\ last' = Event("chan." \o kind, chans[c].name, "", Undefined,
                     IF hasErr THEN <<"error">> ELSE <<>>, "")
    /\ UNCHANGED <<client, channel, queues, qobjs, conns, chans, broker, outbox,
                   callbacks, reqs, rpcInit, counters>>

\* The wrapper's 'drop' event: it has given up on a message it was keeping.
\* An error event that names the channel; nothing is sent again.
ChanDrop(i) ==
    /\ i \in 1..Len(outbox)
    /\ outbox[i].state = "unconfirmed"
    /\ outbox' = [outbox EXCEPT ![i].state = "dropped"]
    /\ last' = Event("chan.drop", chans[outbox[i].chan].name, outbox[i].cid,
                     Undefined, <<"error">>, "")
    /\ UNCHANGED <<client, channel, queues, qobjs, conns, chans, broker,
                   callbacks, reqs, rpcInit, counters>>

\* A setup procedure fails on the raw channel the transport opened for a
\* wrapper that has not connected yet (assertQueue is refused by the broker):
\* the wrapper reports it as an 'error' event that carries the error.
SetupFail(c) ==
    /\ c \in 1..Len(chans)
    /\ ~chans[c].up
    /\ conns[chans[c].conn].state = "connected"
    /\ ~SetupsOk(broker, chans[c].setups)
    /\ ChanFail(c, "error", TRUE)

\* The application calls createQueue(name, op).
AppCreateQueue(name, op) ==
    /\ Len(chans) < MaxChannels
    /\ Len(qobjs) < MaxChannels
    /\ LET cq == createQueue(queues, qobjs, chans, client, name, op, "app")
       IN /\ queues' = cq.queues
          /\ qobjs' = cq.qobjs
          /\ chans' = cq.chans
          /\ last' = Event("createQueue", name, "", op,
                           IF cq.threw THEN <<"throw">> ELSE <<"createChannel">>,
                           IF cq.threw THEN "rejected" ELSE "pending")
    /\ UNCHANGED <<client, channel, conns, broker, outbox, callbacks, reqs,
                   rpcInit, counters>>

\* RPC.init(): both createQueue calls are made, then Promise.all is awaited.
RpcInit ==
    /\ rpcInit.pc = "idle"
    /\ Len(chans) + 2 <= MaxChannels
    /\ Len(qobjs) + 2 <= MaxChannels
    /\ LET a == createQueue(queues, qobjs, chans, client, RequestQueue, <<>>, "rpc")
           b == createQueue(a.queues, a.qobjs, a.chans, client, ReplyQueue,
                            [autoDelete |-> FALSE], "rpc")
           threw == a.threw \/ b.threw
       IN /\ queues' = b.queues
          /\ qobjs' = b.qobjs
          /\ chans' = b.chans
          /\ rpcInit' = [rpcInit EXCEPT !.pc = IF threw THEN "rejected" ELSE "creating",
                                        !.reqChan = a.id, !.repChan = b.id]
          /\ last' = Event("rpc.init", "", "", Undefined,
                           IF threw THEN <<"throw", "throw">>
                           ELSE <<"createChannel", "createChannel">>,
                           IF threw THEN "rejected" ELSE "pending")
    /\ UNCHANGED <<client, channel, conns, broker, outbox, callbacks, reqs, counters>>

\* RPC.request(message).
RpcRequest(message) ==
    /\ Len(reqs) < MaxRequests
    /\ LET r == request(callbacks, reqs, queues, qobjs, outbox, Len(reqs) + 1, message)
       IN /\ callbacks' = r.callbacks
          /\ reqs' = r.reqs
          /\ outbox' = r.outbox
          /\ last' = Event("rpc.request", RequestQueue, r.cid, message, r.fx, "pending")
    /\ UNCHANGED <<client, channel, queues, qobjs, conns, chans, broker,
                   rpcInit, counters>>

\* The application calls publish(qid, message, undefined, handle).
AppPublish(qid, message, handle) ==
    /\ counters.publishes < MaxPublishes
    /\ LET pub == publish(queues, qobjs, outbox, qid, message, NoOptions, handle, "app")
       IN /\ outbox' = pub.outbox
          /\ last' = [Event("publish", qid, "", message, pub.fx,
                            IF pub.threw THEN "rejected" ELSE "pending")
                       EXCEPT !.handle = handle]
    /\ counters' = [counters EXCEPT !.publishes = @ + 1]
    /\ UNCHANGED <<client, channel, queues, qobjs, conns, chans, broker,
                   callbacks, reqs, rpcInit>>

\* The application calls send(qname, message, undefined, handle).
AppSend(qname, message, handle) ==
    /\ counters.publishes < MaxPublishes
    /\ LET snd == send(channel, outbox, qname, message, NoOptions, handle)
       IN /\ outbox' = snd.outbox
          /\ last' = [Event("send", qname, "", message, snd.fx,
                            IF snd.threw THEN "threw" ELSE "pending")
                       EXCEPT !.handle = handle]
    /\ counters' = [counters EXCEPT !.publishes = @ + 1]
    /\ UNCHANGED <<client, channel, queues, qobjs, conns, chans, broker,
                   callbacks, reqs, rpcInit>>

\* A faulty settlement: a failed send is reported in neither mode.
PublishSettleSilent(i, ok) ==
    /\ i \in 1..Len(outbox)
    /\ outbox[i].state = "unconfirmed"
    /\ ok => chans[outbox[i].chan].up
    /\ outbox' = [outbox EXCEPT ![i].state = IF ok THEN "confirmed" ELSE "failed"]
    /\ last' = Event("publish.settle", outbox[i].queue, outbox[i].cid, Undefined,
                     <<>>, IF ~ok /\ ~outbox[i].handle THEN "rejected" ELSE "resolved")
    /\ UNCHANGED <<client, channel, queues, qobjs, conns, chans, broker,
                   callbacks, reqs, rpcInit, counters>>

\* The promise of sendToQueue settles: the broker has confirmed the message
\* (it is now in the queue), or the send has failed. A wrapper sends its
\* messages in the order it was given them. publish() with handle
\* catches the failure and emits an error event.
PublishSettle(i, ok) ==
    /\ i \in 1..Len(outbox)
    /\ outbox[i].state = "unconfirmed"
    /\ \A j \in 1..(i - 1) :
          outbox[j].chan = outbox[i].chan => outbox[j].state # "unconfirmed"
    /\ ok => chans[outbox[i].chan].up
    /\ LET m == outbox[i] IN
       /\ outbox' = [outbox EXCEPT ![i].state = IF ok THEN "confirmed" ELSE "failed"]
       /\ broker' = IF ok /\ broker[m.queue].exists
                    THEN [broker EXCEPT ![m.queue].msgs = Append(@,
                            [cid |-> m.cid, replyTo |-> m.replyTo, payload |-> m.payload])]
                    ELSE broker
       /\ last' = Event("publish.settle", m.queue, m.cid, Undefined,
                        IF ~ok /\ m.handle THEN <<"error">> ELSE <<>>,
                        IF ~ok /\ ~m.handle THEN "rejected" ELSE "resolved")
    /\ UNCHANGED <<client, channel, queues, qobjs, conns, chans, callbacks,
                   reqs, rpcInit, counters>>

\* A responder (or anyone else) puts a message on the reply queue, with the
\* correlation id of a request made so far or with one uuid() never returned.
ReplyArrives(cid, payload) ==
    /\ counters.replies < MaxReplies
    /\ broker[ReplyQueue].exists
    /\ cid \in ForeignCids \cup {reqs[i].cid : i \in 1..Len(reqs)}
    /\ broker' = [broker EXCEPT ![ReplyQueue].msgs =
                    Append(@, [cid |-> cid, replyTo |-> "", payload |-> payload])]
    /\ counters' = [counters EXCEPT !.replies = @ + 1]
    /\ last' = Event("reply.arrives", ReplyQueue, cid, Undefined, <<>>, "")
    /\ UNCHANGED <<client, channel, queues, qobjs, conns, chans, outbox,
                   callbacks, reqs, rpcInit>>

\* The broker delivers the head of a queue to consumer i of channel c, which
\* has room under its prefetch. The consume handler of subscribe() decodes the
\* delivery and calls the callback; ack() goes to q.channel of the registry
\* object the handler closed over and reaches the broker when that wrapper has
\* a raw channel.
Deliver(c, i) ==
    /\ c \in 1..Len(chans)
    /\ chans[c].up
    /\ i \in 1..Len(chans[c].consumers)
    /\ LET con == chans[c].consumers[i]
           q == con.queue
       IN /\ broker[q].msgs # <<>>
          /\ chans[c].prefetch = 0 \/ Len(con.unacked) < chans[c].prefetch
          /\ LET m == Head(broker[q].msgs)
                 msg == [content |-> safeJSON(m.payload), replyTo |-> m.replyTo,
                         correlationId |-> m.cid]
                 h == onReply(callbacks, reqs, msg)
                 w == qobjs[con.obj].channel
                 acked == IndexOf(h.fx, "ack") > 0 /\ w = c
             IN /\ broker' = [broker EXCEPT ![q].msgs = Tail(@)]
                /\ chans' = [chans EXCEPT ![c].consumers[i].unacked =
                                IF acked THEN @ ELSE Append(@, m)]
                /\ callbacks' = h.callbacks
                /\ reqs' = h.reqs
                /\ last' = Event("deliver", q, m.cid, msg.content, h.fx, "")
    /\ UNCHANGED <<client, channel, queues, qobjs, conns, outbox, rpcInit, counters>>

\* Whether the broker can deliver to consumer i of channel c now.
Deliverable(c, i) ==
    /\ c \in 1..Len(chans)
    /\ chans[c].up
    /\ i \in 1..Len(chans[c].consumers)
    /\ broker[chans[c].consumers[i].queue].msgs # <<>>
    /\ \/ chans[c].prefetch = 0
       \/ Len(chans[c].consumers[i].unacked) < chans[c].prefetch

Consumers == 1..(MaxDisconnects + 2)

\* The queues the application declares itself; the RPC queues are declared
\* by RPC.init() alone.
AppQueues == {OtherQueue}
AppOps == {<<>>, [autoDelete |-> TRUE]}

\* The op arguments of createQueue: none, partial, and every (durable,
\* autoDelete) pair.
QueueOps == {<<>>, [durable |-> FALSE], [autoDelete |-> TRUE],
             [durable |-> TRUE, autoDelete |-> FALSE],
             [durable |-> FALSE, autoDelete |-> TRUE]}

\* The payload other producers put on the application's queue.
AppPayloads == {<<"{", "r=1", "}">>}

\* The consumer tag the broker gives its n-th consumer.
TagName(n) == "amq.ctag-" \o ToString(n)

\* The tags the application passes to unsubscribe: every tag subscribe can
\* have returned, and one the broker never gave out.
Tags == 1..(MaxSubscribes + 1)

\* The callback the application subscribes with keeps the message and calls
\* ack() or nack() later, or never. A consumer the broker has cancelled keeps
\* its record, under the name "cancelled", for the deliveries it still holds.
AppCallbacks == {"hold"}

\* The position of the consumer with a tag on a channel, 0 when the tag is
\* not the tag of an active consumer of that channel.
ActiveConsumer(ch, tag) ==
    IF \E i \in 1..Len(ch.consumers) :
          ch.consumers[i].tag = tag /\ ch.consumers[i].cb # "cancelled"
    THEN CHOOSE i \in 1..Len(ch.consumers) :
            ch.consumers[i].tag = tag /\ ch.consumers[i].cb # "cancelled"
    ELSE 0

\* unsubscribe(qName, tag): q.channel._channel of the registry entry, then
\* cancel(tag) on that raw channel. Reading through a missing entry, a missing
\* channel or a wrapper with no raw channel throws. The broker cancels the
\* consumer that has the tag; for a tag no active consumer of the channel
\* has, accepted tells whether the broker answers cancel-ok or with an error.
unsubscribe(qs, objs, chs, qName, tag, accepted) ==
    LET q == qs[qName]
        w == IF q = 0 THEN 0 ELSE objs[q].channel
        i == IF w = 0 THEN 0 ELSE ActiveConsumer(chs[w], tag)
    IN IF w = 0 \/ ~chs[w].up
       THEN [chans |-> chs, fx |-> <<"throw">>, result |-> "rejected"]
       ELSE IF i = 0
       THEN [chans |-> chs, fx |-> <<"cancel">>,
             result |-> IF accepted THEN "resolved" ELSE "rejected"]
       ELSE [chans |-> [chs EXCEPT ![w].consumers[i].cb = "cancelled"],
             fx |-> <<"cancel">>, result |-> "resolved"]

\* A faulty poll: the head of the queue is returned and left on the queue.
getMessagePeek(gl, chs, brk, qname) ==
    IF gl = 0 \/ ~chs[gl].up
    THEN [broker |-> brk, content |-> Undefined, fx |-> <<"throw">>,
          result |-> "rejected"]
    ELSE IF brk[qname].msgs = <<>>
    THEN [broker |-> brk, content |-> Undefined, fx |-> <<"get">>,
          result |-> "no message"]
    ELSE [broker |-> brk,
          content |-> safeJSON(Head(brk[qname].msgs).payload),
          fx |-> <<"get">>, result |-> "resolved"]

\* getMessage(qname): channel.get(qname, {noAck: true}) on the raw channel of
\* the global channel. Reading _channel of a missing global channel, or get
\* of a missing raw channel, throws. get answers false for an empty queue,
\* and the call fails with 'No message on qname'; else the broker takes the
\* head off the queue, with nothing to acknowledge, and the call returns its
\* decoded content.
getMessage(gl, chs, brk, qname) ==
    IF gl = 0 \/ ~chs[gl].up
    THEN [broker |-> brk, content |-> Undefined, fx |-> <<"throw">>,
          result |-> "rejected"]
    ELSE IF brk[qname].msgs = <<>>
    THEN [broker |-> brk, content |-> Undefined, fx |-> <<"get">>,
          result |-> "no message"]
    ELSE [broker |-> [brk EXCEPT ![qname].msgs = Tail(@)],
          content |-> safeJSON(Head(brk[qname].msgs).payload),
          fx |-> <<"get">>, result |-> "resolved"]

\* The application calls getMessage(qname) for a queue the broker holds.
AppGetMessage(qname) ==
    /\ broker[qname].exists
    /\ LET got == getMessage(channel, chans, broker, qname)
       IN /\ broker' = got.broker
          /\ last' = Event("getMessage", qname, "", got.content, got.fx, got.result)
    /\ UNCHANGED <<client, channel, queues, qobjs, conns, chans, outbox,
                   callbacks, reqs, rpcInit, counters>>

\* The application calls subscribe(qid, cb): the promise of addSetup resolves
\* with what consume returned, the consumer tag.
AppSubscribe(qid, cb) ==
    /\ counters.tags < MaxSubscribes
    /\ LET sub == subscribe(queues, qobjs, chans, counters.tags, qid, cb)
       IN /\ chans' = sub.chans
          /\ counters' = [counters EXCEPT !.tags = sub.tags]
          /\ last' = Event("subscribe", qid, "",
                           IF sub.tags > counters.tags
                           THEN Obj(TagName(sub.tags)) ELSE Undefined,
                           IF sub.threw THEN <<"throw">> ELSE <<"addSetup">>,
                           IF sub.threw THEN "threw" ELSE "resolved")
    /\ UNCHANGED <<client, channel, queues, qobjs, conns, broker, outbox,
                   callbacks, reqs, rpcInit>>

\* The application calls unsubscribe(qName, tag).
AppUnsubscribe(qName, tag, accepted) ==
    /\ LET un == unsubscribe(queues, qobjs, chans, qName, tag, accepted)
       IN /\ chans' = un.chans
          /\ counters' = [counters EXCEPT
                            !.cancels = IF un.chans # chans THEN @ + 1 ELSE @]
          /\ last' = Event("unsubscribe", qName, "", Str(TagName(tag)),
                           un.fx, un.result)
    /\ UNCHANGED <<client, channel, queues, qobjs, conns, broker, outbox,
                   callbacks, reqs, rpcInit>>

\* Another producer puts a message on a queue the broker holds.
MessageArrives(q, payload) ==
    /\ counters.replies < MaxReplies
    /\ broker[q].exists
    /\ broker' = [broker EXCEPT ![q].msgs =
                    Append(@, [cid |-> MissingCid, replyTo |-> "", payload |-> payload])]
    /\ counters' = [counters EXCEPT !.replies = @ + 1]
    /\ last' = Event("message.arrives", q, "", Undefined, <<>>, "")
    /\ UNCHANGED <<client, channel, queues, qobjs, conns, chans, outbox,
                   callbacks, reqs, rpcInit>>

\* The broker delivers the head of a queue to an active consumer of the
\* application that has room under its prefetch (the broker counts prefetch
\* for each consumer). The consume handler of subscribe() decodes the
\* delivery and calls the callback, and does nothing else.
DeliverApp(c, i) ==
    /\ Deliverable(c, i)
    /\ chans[c].consumers[i].cb \in AppCallbacks
    /\ LET q == chans[c].consumers[i].queue
           m == Head(broker[q].msgs)
       IN /\ broker' = [broker EXCEPT ![q].msgs = Tail(@)]
          /\ chans' = [chans EXCEPT ![c].consumers[i].unacked = Append(@, m)]
          /\ last' = Event("deliver.app", q, m.cid, safeJSON(m.payload),
                           <<"call">>, "")
    /\ UNCHANGED <<client, channel, queues, qobjs, conns, outbox, callbacks,
                   reqs, rpcInit, counters>>

\* A faulty acknowledgement: the broker puts an acknowledged message back on
\* its queue.
AppSettleRequeue(c, i, how) ==
    /\ c \in 1..Len(chans)
    /\ i \in 1..Len(chans[c].consumers)
    /\ chans[c].consumers[i].unacked # <<>>
    /\ LET con == chans[c].consumers[i]
           m == Head(con.unacked)
       IN /\ chans' = [chans EXCEPT ![c].consumers[i].unacked = Tail(@)]
          /\ broker' = [broker EXCEPT ![con.queue].msgs = <<m>> \o @]
          /\ last' = Event("message." \o how, con.queue, m.cid, Undefined,
                           <<how>>, "")
    /\ UNCHANGED <<client, channel, queues, qobjs, conns, outbox, callbacks,
                   reqs, rpcInit, counters>>

\* The callback's message.ack() or message.nack(), some time after the
\* delivery: q.channel.ack(msg) or q.channel.nack(msg), with q the registry
\* object the handler closed over. It settles the delivery when that wrapper
\* is the one the delivery came on; nack puts the message back on the queue.
AppSettle(c, i, how) ==
    /\ c \in 1..Len(chans)
    /\ i \in 1..Len(chans[c].consumers)
    /\ chans[c].consumers[i].unacked # <<>>
    /\ LET con == chans[c].consumers[i]
           m == Head(con.unacked)
           same == qobjs[con.obj].channel = c /\ chans[c].up
       IN /\ chans' = IF same
                      THEN [chans EXCEPT ![c].consumers[i].unacked = Tail(@)]
                      ELSE chans
          /\ broker' = IF same /\ how = "nack"
                       THEN [broker EXCEPT ![con.queue].msgs = <<m>> \o @]
                       ELSE broker
          /\ last' = Event("message." \o how, con.queue, m.cid, Undefined,
                           <<how>>, "")
    /\ UNCHANGED <<client, channel, queues, qobjs, conns, outbox, callbacks,
                   reqs, rpcInit, counters>>

\* The names the application publishes and sends to: one it declares and one
\* no createQueue call of this process names.
SendQueues == {OtherQueue, RequestQueue}

\* A message the broker can deliver is delivered before anything else
\* happens: a message waits in a queue only for want of a ready consumer.
CanDeliver == \E c \in 1..MaxChannels, i \in Consumers : Deliverable(c, i)

\* The RPC engine over a transport that connects: the application starts
\* Rabbit and RPC and makes requests in any order, responders and strangers
\* put replies on the reply queue, publishes are confirmed or fail. Here the
\* application does not call Rabbit.init() again while a connection attempt
\* is under way, so there is one connection.
Next ==
    \/ \E c \in 1..MaxChannels, i \in Consumers : Deliver(c, i)
    \/ ~CanDeliver /\ (conns = <<>> \/ client # 0) /\ RabbitInit
    \/ \E k \in 1..MaxConns : ~CanDeliver /\ ConnConnect(k)
    \/ \E c \in 1..MaxChannels : ~CanDeliver /\ ChanConnect(c)
    \/ ~CanDeliver /\ RpcInit
    \/ \E message \in Messages : ~CanDeliver /\ RpcRequest(message)
    \/ \E i \in 1..(MaxRequests + MaxPublishes), ok \in BOOLEAN :
          ~CanDeliver /\ PublishSettle(i, ok)
    \/ \E cid \in ForeignCids \cup {uuid(n) : n \in 1..MaxRequests},
          payload \in ReplyPayloads : ~CanDeliver /\ ReplyArrives(cid, payload)

Spec == Init /\ [][Next]_vars

\* The channel registry and the publisher over a transport that fails: the
\* connection drops, channels report errors before they open, and the
\* application declares queues and publishes beside RPC.init(). As in Spec,
\* Rabbit.init() is not called again while a connection attempt is under way.
NextRabbit ==
    \/ \E c \in 1..MaxChannels, i \in Consumers : Deliver(c, i)
    \/ ~CanDeliver /\ (conns = <<>> \/ client # 0) /\ RabbitInit
    \/ \E k \in 1..MaxConns : ~CanDeliver /\ ConnConnect(k)
    \/ \E k \in 1..MaxConns : ~CanDeliver /\ ConnDisconnect(k)
    \/ \E c \in 1..MaxChannels : ~CanDeliver /\ ChanConnect(c)
    \/ \E c \in 1..MaxChannels, kind \in {"error", "close"}, hasErr \in BOOLEAN :
          ~CanDeliver /\ ChanFail(c, kind, hasErr)
    \/ \E name \in AppQueues, op \in AppOps : ~CanDeliver /\ AppCreateQueue(name, op)
    \/ ~CanDeliver /\ RpcInit
    \/ \E qid \in QueueNames, message \in Messages, handle \in BOOLEAN :
          ~CanDeliver /\ AppPublish(qid, message, handle)
    \/ \E i \in 1..(MaxRequests + MaxPublishes), ok \in BOOLEAN :
          ~CanDeliver /\ PublishSettle(i, ok)

SpecRabbit == Init /\ [][NextRabbit]_vars

\* The publisher: the application declares queues and calls publish and send
\* in both modes, for names it declared and names it did not; the transport
\* connects, and confirms, fails or drops every message.
NextPublish ==
    \/ (conns = <<>> \/ client # 0) /\ RabbitInit
    \/ \E k \in 1..MaxConns : ConnConnect(k)
    \/ \E c \in 1..MaxChannels : ChanConnect(c)
    \/ \E name \in AppQueues : AppCreateQueue(name, <<>>)
    \/ \E qid \in SendQueues, message \in Messages, handle \in BOOLEAN :
          AppPublish(qid, message, handle)
    \/ \E qid \in SendQueues, message \in Messages, handle \in BOOLEAN :
          AppSend(qid, message, handle)
    \/ \E i \in 1..(MaxRequests + MaxPublishes), ok \in BOOLEAN : PublishSettle(i, ok)
    \/ \E i \in 1..(MaxRequests + MaxPublishes) : ChanDrop(i)

SpecPublish == Init /\ [][NextPublish]_vars

\* The queue manager: the application declares a queue name any number of
\* times with any options; the transport connects every channel whose setup
\* the broker accepts and reports the failure of the others.
NextQueue ==
    \/ (conns = <<>> \/ client # 0) /\ RabbitInit
    \/ \E k \in 1..MaxConns : ConnConnect(k)
    \/ \E c \in 1..MaxChannels : ChanConnect(c)
    \/ \E c \in 1..MaxChannels : SetupFail(c)
    \/ \E name \in AppQueues, op \in QueueOps : AppCreateQueue(name, op)

SpecQueue == Init /\ [][NextQueue]_vars

\* The channel registry's listeners: channels report connect, error and
\* close at any time, before and after the promise of makeChannel is
\* settled, and the connection drops and comes back.
NextChannel ==
    \/ (conns = <<>> \/ client # 0) /\ RabbitInit
    \/ \E k \in 1..MaxConns : ConnConnect(k)
    \/ \E k \in 1..MaxConns : ConnDisconnect(k)
    \/ \E c \in 1..MaxChannels : ChanConnect(c)
    \/ \E c \in 1..MaxChannels, kind \in {"error", "close"}, hasErr \in BOOLEAN :
          ChanFail(c, kind, hasErr)
    \/ \E c \in 1..MaxChannels, kind \in {"error", "close"}, hasErr \in BOOLEAN :
          ChanNotify(c, kind, hasErr)
    \/ \E name \in AppQueues : AppCreateQueue(name, <<>>)

SpecChannel == Init /\ [][NextChannel]_vars

\* The subscriber: the application declares a queue, subscribes to it any
\* number of times with callbacks that hold their messages, acknowledges or
\* rejects them later and unsubscribes with any tag; other producers fill the
\* queue.
NextSubscribe ==
    \/ (conns = <<>> \/ client # 0) /\ RabbitInit
    \/ \E k \in 1..MaxConns : ConnConnect(k)
    \/ \E c \in 1..MaxChannels : ChanConnect(c)
    \/ \E name \in AppQueues : AppCreateQueue(name, <<>>)
    \/ \E qid \in SendQueues, cb \in AppCallbacks : AppSubscribe(qid, cb)
    \/ \E qName \in SendQueues, tag \in Tags, accepted \in BOOLEAN :
          AppUnsubscribe(qName, tag, accepted)
    \/ \E q \in AppQueues, payload \in AppPayloads : MessageArrives(q, payload)
    \/ \E c \in 1..MaxChannels, i \in Consumers : DeliverApp(c, i)
    \/ \E c \in 1..MaxChannels, i \in Consumers, how \in {"ack", "nack"} :
          AppSettle(c, i, how)

SpecSubscribe == Init /\ [][NextSubscribe]_vars

\* Polling: the application declares a queue, sends to it and polls it with
\* getMessage; other producers put JSON and other text on the queue.
NextPoll ==
    \/ (conns = <<>> \/ client # 0) /\ RabbitInit
    \/ \E k \in 1..MaxConns : ConnConnect(k)
    \/ \E c \in 1..MaxChannels : ChanConnect(c)
    \/ \E name \in AppQueues : AppCreateQueue(name, <<>>)
    \/ \E qid \in AppQueues, message \in Messages : AppSend(qid, message, TRUE)
    \/ \E i \in 1..(MaxRequests + MaxPublishes) : PublishSettle(i, TRUE)
    \/ \E q \in AppQueues, payload \in ReplyPayloads : MessageArrives(q, payload)
    \/ \E qname \in AppQueues : AppGetMessage(qname)

SpecPoll == Init /\ [][NextPoll]_vars

\* Decoding: other producers put JSON and other text on a queue the
\* application declared once; the application subscribes to it, and to a
\* name it never declares, with callbacks that acknowledge in their own time,
\* and polls it.
NextDecode ==
    \/ (conns = <<>> \/ client # 0) /\ RabbitInit
    \/ \E k \in 1..MaxConns : ConnConnect(k)
    \/ \E c \in 1..MaxChannels : ChanConnect(c)
    \/ \E name \in AppQueues : queues[name] = 0 /\ AppCreateQueue(name, <<>>)
    \/ \E q \in AppQueues, payload \in ReplyPayloads : MessageArrives(q, payload)
    \/ \E qid \in SendQueues, cb \in AppCallbacks : AppSubscribe(qid, cb)
    \/ \E c \in 1..MaxChannels, i \in Consumers : DeliverApp(c, i)
    \/ \E c \in 1..MaxChannels, i \in Consumers : AppSettle(c, i, "ack")
    \/ \E qname \in AppQueues : AppGetMessage(qname)

SpecDecode == Init /\ [][NextDecode]_vars

\* The round trip over a broker that stays connected: the application
\* declares a queue once, subscribes to it before or after it publishes, and
\* its callbacks acknowledge what they get. The broker confirms what it is
\* sent and delivers what a ready consumer can take, and a callback that was
\* handed a message comes to call ack().
NextRoundTrip ==
    \/ (conns = <<>> \/ client # 0) /\ RabbitInit
    \/ \E k \in 1..MaxConns : ConnConnect(k)
    \/ \E c \in 1..MaxChannels : ChanConnect(c)
    \/ \E name \in AppQueues : queues[name] = 0 /\ AppCreateQueue(name, <<>>)
    \/ \E qid \in AppQueues, cb \in AppCallbacks : AppSubscribe(qid, cb)
    \/ \E qid \in AppQueues, message \in Messages : AppPublish(qid, message, TRUE)
    \/ \E i \in 1..(MaxRequests + MaxPublishes) : PublishSettle(i, TRUE)
    \/ \E c \in 1..MaxChannels, i \in Consumers : DeliverApp(c, i)
    \/ \E c \in 1..MaxChannels, i \in Consumers : AppSettle(c, i, "ack")

SpecRoundTrip ==
    /\ Init /\ [][NextRoundTrip]_vars
    /\ WF_vars(\E i \in 1..(MaxRequests + MaxPublishes) : PublishSettle(i, TRUE))
    /\ WF_vars(\E c \in 1..MaxChannels, i \in Consumers : DeliverApp(c, i))
    /\ WF_vars(\E c \in 1..MaxChannels, i \in Consumers : AppSettle(c, i, "ack"))

\* The subscribe calls made so far: the consume procedures the wrappers keep.
RECURSIVE ConsumeCount(_)
ConsumeCount(setups) ==
    IF setups = <<>> THEN 0
    ELSE (IF Head(setups).kind = "consume" THEN 1 ELSE 0) + ConsumeCount(Tail(setups))

RECURSIVE SubscribeCallsIn(_)
SubscribeCallsIn(chs) ==
    IF chs = <<>> THEN 0
    ELSE ConsumeCount(Head(chs).setups) + SubscribeCallsIn(Tail(chs))

SubscribeCalls == SubscribeCallsIn(chans)

\* Reconnection: the application declares a queue and subscribes to it while
\* the connection drops and comes back and the transport runs the setup
\* procedures of each channel again.
NextReconnect ==
    \/ (conns = <<>> \/ client # 0) /\ RabbitInit
    \/ \E k \in 1..MaxConns : ConnConnect(k)
    \/ \E k \in 1..MaxConns : ConnDisconnect(k)
    \/ \E c \in 1..MaxChannels : ChanConnect(c)
    \/ \E name \in AppQueues, op \in AppOps : AppCreateQueue(name, op)
    \/ \E qid \in AppQueues, cb \in AppCallbacks :
          SubscribeCalls < MaxSubscribes /\ AppSubscribe(qid, cb)

SpecReconnect == Init /\ [][NextReconnect]_vars

\* The RPC engine over a connection that drops and comes back: as Spec, and
\* the transport reports disconnects and runs the setup procedures again.
NextRpcReconnect ==
    \/ \E c \in 1..MaxChannels, i \in Consumers : Deliver(c, i)
    \/ ~CanDeliver /\ (conns = <<>> \/ client # 0) /\ RabbitInit
    \/ \E k \in 1..MaxConns : ~CanDeliver /\ ConnConnect(k)
    \/ \E k \in 1..MaxConns : ~CanDeliver /\ ConnDisconnect(k)
    \/ \E c \in 1..MaxChannels : ~CanDeliver /\ ChanConnect(c)
    \/ ~CanDeliver /\ RpcInit
    \/ \E message \in Messages : ~CanDeliver /\ RpcRequest(message)
    \/ \E i \in 1..(MaxRequests + MaxPublishes), ok \in BOOLEAN :
          ~CanDeliver /\ PublishSettle(i, ok)
    \/ \E cid \in ForeignCids \cup {uuid(n) : n \in 1..MaxRequests},
          payload \in AppPayloads : ~CanDeliver /\ ReplyArrives(cid, payload)

SpecRpcReconnect == Init /\ [][NextRpcReconnect]_vars

\* Starting up: the application calls Rabbit.init() at any time, also while
\* an earlier call is waiting for its connection and after one was rejected,
\* and declares a queue; connections come up and drop.
NextInit ==
    \/ RabbitInit
    \/ \E k \in 1..MaxConns : ConnConnect(k)
    \/ \E k \in 1..MaxConns : ConnDisconnect(k)
    \/ \E c \in 1..MaxChannels : ChanConnect(c)
    \/ \E name \in AppQueues : AppCreateQueue(name, <<>>)

SpecInit == Init /\ [][NextInit]_vars

\* Unsubscribing over a connection that drops and comes back: the
\* application declares a queue once, subscribes, unsubscribes with the tags
\* it was given and acknowledges what it gets; other producers fill the
\* queue.
NextUnsubscribe ==
    \/ (conns = <<>> \/ client # 0) /\ RabbitInit
    \/ \E k \in 1..MaxConns : ConnConnect(k)
    \/ \E k \in 1..MaxConns : ConnDisconnect(k)
    \/ \E c \in 1..MaxChannels : ChanConnect(c)
    \/ \E name \in AppQueues : queues[name] = 0 /\ AppCreateQueue(name, <<>>)
    \/ \E qid \in AppQueues, cb \in AppCallbacks :
          SubscribeCalls < MaxSubscribes /\ AppSubscribe(qid, cb)
    \/ \E qName \in AppQueues, tag \in Tags : AppUnsubscribe(qName, tag, TRUE)
    \/ \E q \in AppQueues, payload \in AppPayloads : MessageArrives(q, payload)
    \/ \E c \in 1..MaxChannels, i \in Consumers : DeliverApp(c, i)
    \/ \E c \in 1..MaxChannels, i \in Consumers : AppSettle(c, i, "ack")

SpecUnsubscribe == Init /\ [][NextUnsubscribe]_vars

---------------------------------------------------------------------------
(* Properties.                                                             *)

Requests == 1..Len(reqs)

\* The step just taken handed a delivery to the RPC callback.
Delivered == last'.op = "deliver"

\* The decoded content of the delivery a Deliver step is about to hand over.
HeadContent == safeJSON(Head(broker[ReplyQueue].msgs).payload)

\* C1: a delivery whose correlation id has a PENDING entry resolves that
\* request with the delivery's decoded content and removes the entry; no
\* resolver is ever invoked twice, and a second reply with the same
\* correlation id resolves nothing and is reported as unmatched.
C1_ExactlyOnce ==
    /\ [](\A i \in Requests : reqs[i].calls <= 1)
    /\ [][Delivered =>
            IF last'.cid \in DOMAIN callbacks
            THEN LET i == callbacks[last'.cid] IN
                 /\ reqs[i].state = "PENDING"
                 /\ reqs'[i].state = "RESOLVED"
                 /\ reqs'[i].value = HeadContent
                 /\ reqs'[i].calls = 1
                 /\ last'.cid \notin DOMAIN callbacks'
            ELSE (\E i \in Requests : reqs[i].cid = last'.cid) =>
                 /\ reqs' = reqs
                 /\ callbacks' = callbacks
                 /\ Count(last'.fx, "error") = 1
                 /\ Count(last'.fx, "resolve") = 0]_vars

\* A duplicate reply has been handled as unmatched.
C1_Witness ==
    /\ last.op = "deliver"
    /\ Count(last.fx, "error") = 1
    /\ \E i \in Requests :
          reqs[i].cid = last.cid /\ reqs[i].state = "RESOLVED" /\ reqs[i].calls = 1

\* C2: whatever the order in which replies arrive, a delivery changes the
\* promise of a request only when it carries that request's correlation id,
\* the request then resolves with that delivery's content, and a resolved
\* request keeps its value.
C2_Correlation ==
    /\ [][Delivered =>
            \A i \in Requests :
               reqs'[i] # reqs[i] =>
                  /\ reqs[i].cid = last'.cid
                  /\ reqs'[i].value = HeadContent]_vars
    /\ [][\A i \in Requests :
            reqs[i].state = "RESOLVED" =>
               reqs'[i].state = "RESOLVED" /\ reqs'[i].value = reqs[i].value]_vars

\* Two requests were outstanding together and the replies came in the reverse
\* order: the first request was resolved last, with a different content.
C2_Witness ==
    /\ Len(reqs) = 2
    /\ reqs[1].state = "RESOLVED" /\ reqs[2].state = "RESOLVED"
    /\ reqs[1].value # reqs[2].value
    /\ last.op = "deliver" /\ last.cid = reqs[1].cid
    /\ last.content = reqs[1].value

\* C3: a reply for any outstanding request resolves it, however many older
\* requests are still PENDING, and leaves every other entry and promise as it
\* was, so that the others stay resolvable by their own replies.
C3_NoHeadOfLine ==
    [][Delivered /\ last'.cid \in DOMAIN callbacks =>
         /\ reqs'[callbacks[last'.cid]].state = "RESOLVED"
         /\ \A c \in DOMAIN callbacks \ {last'.cid} :
               /\ c \in DOMAIN callbacks'
               /\ callbacks'[c] = callbacks[c]
               /\ reqs'[callbacks[c]] = reqs[callbacks[c]]
               /\ reqs'[callbacks[c]].state = "PENDING"]_vars

\* The later request has been resolved while the earlier one is PENDING and
\* still registered.
C3_Witness ==
    /\ Len(reqs) = 2
    /\ reqs[2].state = "RESOLVED"
    /\ reqs[1].state = "PENDING"
    /\ reqs[1].cid \in DOMAIN callbacks
    /\ callbacks[reqs[1].cid] = 1

RpcSent == {o \in 1..Len(outbox) : outbox[o].by = "rpc"}

\* C5: request() stores the resolver before it calls the publisher; when the
\* request queue has a channel the message goes to the request queue with the
\* new correlation id, replyTo the reply queue and the serialised message;
\* every message handed to the publisher has its request registered until it
\* is resolved, so a reply delivered at any time after the hand-over,
\* confirmed or not, resolves the request.
C5_RegisterThenPublish ==
    /\ [][last'.op = "rpc.request" =>
            /\ last'.fx[1] = "register"
            /\ last'.cid \in DOMAIN callbacks'
            /\ IF PublishChannel(queues, qobjs, RequestQueue) # 0
               THEN /\ last'.fx = <<"register", "sendToQueue">>
                    /\ Len(outbox') = Len(outbox) + 1
                    /\ LET o == outbox'[Len(outbox')] IN
                       /\ o.queue = RequestQueue
                       /\ o.cid = last'.cid
                       /\ o.replyTo = ReplyQueue
                       /\ o.payload = JSONstringify(last'.content)
                       /\ o.chan = PublishChannel(queues, qobjs, RequestQueue)
                       /\ o.state = "unconfirmed"
               ELSE outbox' = outbox]_vars
    /\ [](\A o \in RpcSent :
            \E i \in Requests :
               /\ reqs[i].cid = outbox[o].cid
               /\ reqs[i].state = "PENDING" =>
                     outbox[o].cid \in DOMAIN callbacks /\ callbacks[outbox[o].cid] = i)
    /\ [][Delivered =>
            \A o \in RpcSent, i \in Requests :
               reqs[i].cid = outbox[o].cid /\ outbox[o].cid = last'.cid
                  /\ reqs[i].state = "PENDING" => reqs'[i].state = "RESOLVED"]_vars

\* A request has been resolved by a reply while its publish is unconfirmed.
C5_Witness ==
    \E o \in RpcSent, i \in Requests :
       /\ reqs[i].cid = outbox[o].cid
       /\ outbox[o].state = "unconfirmed"
       /\ outbox[o].queue = RequestQueue /\ outbox[o].replyTo = ReplyQueue
       /\ reqs[i].state = "RESOLVED"

\* C6: the callback acknowledges every delivery exactly once, as its first
\* effect and so before the lookup, whether the lookup finds an entry or not,
\* and never rejects one; no delivery handed to it stays unacknowledged on
\* the channel.
C6_AckFirst ==
    /\ [][Delivered =>
            /\ Count(last'.fx, "ack") = 1
            /\ last'.fx[1] = "ack"
            /\ Len(last'.fx) >= 2
            /\ Count(last'.fx, "nack") = 0]_vars
    /\ [](\A c \in 1..Len(chans) : \A i \in 1..Len(chans[c].consumers) :
            chans[c].consumers[i].cb = "rpc" => chans[c].consumers[i].unacked = <<>>)

\* A delivery with no correlation id was acknowledged and then reported.
C6_Witness ==
    /\ last.op = "deliver"
    /\ last.cid = MissingCid
    /\ last.fx = <<"ack", "error">>
    /\ \E c \in 1..Len(chans) : chans[c].up /\ Len(chans[c].consumers) = 1

\* C7 (as claimed): a delivery whose correlation id has no registered
\* PendingCall produces exactly one error event, resolves no request and
\* leaves the table unchanged.
C7_Unmatched ==
    [][Delivered /\ last'.cid \notin DOMAIN callbacks =>
         /\ Count(last'.fx, "error") = 1
         /\ reqs' = reqs
         /\ callbacks' = callbacks]_vars

\* C8: an entry leaves the table, and the promise behind it changes, only in
\* the step that handles a delivery carrying the entry's correlation id: no
\* other operation settles or removes a pending call.
C8_NoCleanup ==
    [][\A c \in DOMAIN callbacks :
          (\/ c \notin DOMAIN callbacks'
           \/ callbacks'[c] # callbacks[c]
           \/ reqs'[callbacks[c]] # reqs[callbacks[c]])
          => Delivered /\ last'.cid = c]_vars

\* A request whose publish failed is still PENDING and registered after every
\* reply the environment sends has been handled.
C8_Witness ==
    /\ counters.replies = MaxReplies
    /\ last.op = "deliver"
    /\ \E o \in RpcSent, i \in Requests :
          /\ reqs[i].cid = outbox[o].cid
          /\ outbox[o].state = "failed"
          /\ reqs[i].state = "PENDING"
          /\ reqs[i].cid \in DOMAIN callbacks

\* The setup procedures and consumers that carry the RPC callback.
RpcSubscribed ==
    \E c \in 1..Len(chans) :
       \/ \E i \in 1..Len(chans[c].setups) :
             chans[c].setups[i].kind = "consume" /\ chans[c].setups[i].cb = "rpc"
       \/ \E i \in 1..Len(chans[c].consumers) : chans[c].consumers[i].cb = "rpc"

\* A createQueue call of RPC.init() has failed: createChannel threw, or the
\* channel reported error or close before it opened.
RpcCreateFailed ==
    /\ rpcInit.pc # "idle"
    /\ \/ rpcInit.reqChan = 0
       \/ rpcInit.repChan = 0
       \/ chans[rpcInit.reqChan].settled = "rejected"
       \/ chans[rpcInit.repChan].settled = "rejected"

\* C9: init() declares the request queue and the reply queue durable and not
\* auto-delete; the reply consumer is attached only once both createQueue
\* calls have returned, and then init() is done; when either createQueue call
\* fails init() rejects and nothing is subscribed.
C9_InitOrdering ==
    /\ rpcInit.pc # "idle" /\ rpcInit.reqChan # 0 =>
          chans[rpcInit.reqChan].setups[1] =
             AssertSetup(RequestQueue, [durable |-> TRUE, autoDelete |-> FALSE])
    /\ rpcInit.pc # "idle" /\ rpcInit.repChan # 0 =>
          chans[rpcInit.repChan].setups[1] =
             AssertSetup(ReplyQueue, [durable |-> TRUE, autoDelete |-> FALSE])
    /\ RpcSubscribed =>
          /\ rpcInit.pc = "done"
          /\ chans[rpcInit.reqChan].settled = "resolved"
          /\ chans[rpcInit.repChan].settled = "resolved"
          /\ rpcInit.requestQ = rpcInit.reqChan
          /\ rpcInit.replyQ = rpcInit.repChan
    /\ rpcInit.pc = "done" => RpcSubscribed
    /\ RpcCreateFailed => rpcInit.pc = "rejected" /\ ~RpcSubscribed

\* init() was rejected because the request queue's channel failed, although
\* the reply queue's channel is open: nothing is subscribed.
C9_Witness ==
    /\ rpcInit.pc = "rejected"
    /\ rpcInit.reqChan # 0 /\ rpcInit.repChan # 0
    /\ chans[rpcInit.reqChan].settled = "rejected"
    /\ chans[rpcInit.repChan].settled = "resolved"
    /\ chans[rpcInit.repChan].up
    /\ ~RpcSubscribed

\* C10: publish() on a name the registry does not hold is rejected, with
\* handleErrors true as with false; nothing is handed to a channel and the
\* registry, the channels and the broker are as before.
C10_PublishUnknown ==
    [][last'.op = "publish" /\ queues[last'.arg] = 0 =>
         /\ last'.result = "rejected"
         /\ Count(last'.fx, "sendToQueue") = 0
         /\ outbox' = outbox
         /\ queues' = queues
         /\ qobjs' = qobjs
         /\ chans' = chans
         /\ broker' = broker]_vars

\* publish() with the default handleErrors was rejected for an unknown name
\* while the global channel and a declared queue's channel are open.
C10_Witness ==
    /\ last.op = "publish"
    /\ last.handle
    /\ queues[last.arg] = 0
    /\ last.result = "rejected"
    /\ channel # 0
    /\ chans[channel].up
    /\ \E q \in QueueNames : queues[q] # 0 /\ qobjs[queues[q]].channel # 0

\* C11: when sendToQueue fails, publish and send with handleErrors true emit
\* exactly one error event and their promise resolves, and with handleErrors
\* false emit none and their promise is rejected; when sendToQueue succeeds
\* no error event is emitted and the promise resolves.
C11_FailurePropagation ==
    [][\A i \in 1..Len(outbox) :
          outbox[i].state = "unconfirmed"
             /\ outbox'[i].state \in {"confirmed", "failed"} =>
             /\ last'.op = "publish.settle"
             /\ outbox[i].by \in {"app", "send"}
             /\ IF outbox'[i].state = "failed"
                THEN IF outbox[i].handle
                     THEN Count(last'.fx, "error") = 1 /\ last'.result = "resolved"
                     ELSE Count(last'.fx, "error") = 0 /\ last'.result = "rejected"
                ELSE Count(last'.fx, "error") = 0 /\ last'.result = "resolved"]_vars

\* A send with the default handleErrors has failed: one error event, and the
\* promise resolved.
C11_Witness ==
    /\ last.op = "publish.settle"
    /\ last.fx = <<"error">>
    /\ last.result = "resolved"
    /\ \E i \in 1..Len(outbox) :
          outbox[i].by = "send" /\ outbox[i].handle /\ outbox[i].state = "failed"

\* C12: once init() has stored the global channel, send() hands the message
\* to that channel for any queue name, in the registry or not, and leaves the
\* registry, the registry objects and every channel as they were.
C12_SendGlobal ==
    [][last'.op = "send" /\ channel # 0 =>
         /\ last'.fx = <<"sendToQueue">>
         /\ last'.result = "pending"
         /\ Len(outbox') = Len(outbox) + 1
         /\ outbox'[Len(outbox')].chan = channel
         /\ outbox'[Len(outbox')].queue = last'.arg
         /\ outbox'[Len(outbox')].payload = JSONstringify(last'.content)
         /\ queues' = queues
         /\ qobjs' = qobjs
         /\ chans' = chans
         /\ channel' = channel]_vars

\* A message sent to a name the registry does not hold was confirmed on the
\* global channel, while a declared queue has a channel of its own.
C12_Witness ==
    /\ \E i \in 1..Len(outbox) :
          /\ outbox[i].by = "send"
          /\ queues[outbox[i].queue] = 0
          /\ outbox[i].chan = channel
          /\ outbox[i].state = "confirmed"
    /\ \E q \in QueueNames : queues[q] # 0 /\ qobjs[queues[q]].channel # 0

\* The channels createQueue has asked for, and the options of their setup.
QueueChans == {c \in 1..Len(chans) : chans[c].owner = "app"}

SetupOpts(c) == chans[c].setups[1].opts

\* C13: of two createQueue calls with the same name and the same options,
\* for every (durable, autoDelete) pair, neither is rejected with an error
\* event once the other has succeeded, and the broker's queue has the options
\* of the first call after each of them.
C13_Idempotent ==
    /\ [](\A c1, c2 \in QueueChans :
            /\ chans[c1].name = chans[c2].name
            /\ SetupOpts(c1) = SetupOpts(c2)
            /\ chans[c1].settled = "resolved"
            => /\ chans[c2].settled # "rejected"
               /\ broker[chans[c1].name].exists
               /\ broker[chans[c1].name].opts = SetupOpts(c1))
    /\ [][\A c1, c2 \in QueueChans :
            /\ chans[c1].name = chans[c2].name
            /\ SetupOpts(c1) = SetupOpts(c2)
            /\ chans[c1].settled = "resolved"
            /\ c2 <= Len(chans)
            /\ chans'[c2] # chans[c2]
            => /\ Count(last'.fx, "error") = 0
               /\ chans'[c2].settled = "resolved"
               /\ broker'[chans[c1].name] = broker[chans[c1].name]]_vars

\* Both of two calls for a queue that is neither durable nor kept have
\* succeeded.
C13_Witness ==
    \E c1, c2 \in QueueChans :
       /\ c1 # c2
       /\ chans[c1].name = chans[c2].name
       /\ SetupOpts(c1) = [durable |-> FALSE, autoDelete |-> TRUE]
       /\ SetupOpts(c2) = SetupOpts(c1)
       /\ chans[c1].settled = "resolved" /\ chans[c2].settled = "resolved"
       /\ broker[chans[c1].name].opts = SetupOpts(c1)

\* C14 (as claimed): at most one channel is open for the global purpose and
\* at most one for each queue name.
C14_OneChannelPerPurpose ==
    \A c1, c2 \in 1..Len(chans) :
       chans[c1].name = chans[c2].name /\ chans[c1].up /\ chans[c2].up => c1 = c2

ChanFailed == last'.op \in {"chan.error", "chan.close"}

\* C17: the promise of makeChannel is settled once. An 'error' or 'close'
\* event before the first 'connect' rejects it with what the event carried; a
\* 'connect' first resolves it with the channel; no later 'error', 'close' or
\* 'connect' changes the outcome or the channel the code holds, and is only
\* reported.
C17_SettleOnce ==
    /\ [][\A c \in 1..Len(chans) :
            chans[c].settled # "pending" =>
               chans'[c].settled = chans[c].settled]_vars
    /\ [][\A c \in 1..Len(chans) :
            chans[c].settled = "pending" /\ chans'[c].settled = "rejected" =>
               /\ ChanFailed
               /\ last'.arg = chans[c].name
               /\ Count(last'.fx, "reject") = 1
               /\ ~chans[c].up]_vars
    /\ [][\A c \in 1..Len(chans) :
            chans[c].settled = "pending" /\ chans'[c].settled = "resolved" =>
               /\ last'.op = "chan.connect"
               /\ Count(last'.fx, "resolve") = 1
               /\ chans'[c].up
               /\ chans[c].owner = "init" => channel' = c
               /\ chans[c].owner = "app" =>
                     qobjs'[queues[chans[c].name]].channel = c]_vars
    /\ [][\A c \in 1..Len(chans) :
            chans[c].settled = "pending" /\ ~chans[c].up /\ chans'[c].up =>
               chans'[c].settled = "resolved"]_vars
    /\ [][(ChanFailed \/ last'.op = "chan.connect")
            /\ (\A c \in 1..Len(chans) : chans'[c].settled = chans[c].settled) =>
               /\ Count(last'.fx, "reject") = 0
               /\ Count(last'.fx, "resolve") = 0
               /\ channel' = channel
               /\ queues' = queues
               /\ qobjs' = qobjs]_vars

\* A channel that had connected, and whose connection then dropped and came
\* back, has reported an error: the promise is still resolved and the global
\* channel is the one init() stored.
C17_Witness ==
    /\ last.op = "chan.error"
    /\ last.fx = <<"error">>
    /\ counters.disconnects > 0
    /\ channel # 0
    /\ chans[channel].settled = "resolved"
    /\ chans[channel].up
    /\ last.arg = chans[channel].name
    /\ \E c \in 1..Len(chans) : chans[c].settled = "rejected"

\* C18 (as claimed): every connect, close, error and drop notification of a
\* channel produces exactly one diagnostic event that names the channel.
C18_OneEventEach ==
    [][ChanFailed \/ last'.op \in {"chan.connect", "chan.drop"} =>
          /\ Count(last'.fx, "log") + Count(last'.fx, "error") = 1
          /\ \E c \in 1..Len(chans) : chans[c].name = last'.arg]_vars

\* The deliveries handed to callbacks on channel c and not yet settled.
RECURSIVE Held(_)
Held(consumers) ==
    IF consumers = <<>> THEN 0
    ELSE Len(Head(consumers).unacked) + Held(Tail(consumers))

\* C19 (as claimed): the subscriber itself never acknowledges or rejects a
\* delivery, and on every queue's channel at most one delivery has been
\* handed to callbacks and not yet acknowledged or rejected, however many
\* times the queue was subscribed to.
C19_Backpressure ==
    /\ [][last'.op = "deliver.app" =>
            Count(last'.fx, "ack") = 0 /\ Count(last'.fx, "nack") = 0]_vars
    /\ [](\A c \in 1..Len(chans) : Held(chans[c].consumers) <= 1)

\* C20 (as claimed): unsubscribe with the tag of an active consumer of the
\* queue's channel cancels exactly that consumer, and unsubscribe for a name
\* the registry does not hold, or with a tag that is not the tag of an active
\* consumer, is rejected and cancels nothing.
C20_Unsubscribe ==
    [][last'.op = "unsubscribe" =>
         LET q == queues[last'.arg]
             w == IF q = 0 THEN 0 ELSE qobjs[q].channel
             hit == IF w = 0 THEN {}
                    ELSE {i \in 1..Len(chans[w].consumers) :
                            /\ chans[w].consumers[i].cb # "cancelled"
                            /\ Str(TagName(chans[w].consumers[i].tag)) = last'.content}
         IN IF hit # {}
            THEN /\ last'.result = "resolved"
                 /\ \A c \in 1..Len(chans) : \A i \in 1..Len(chans[c].consumers) :
                       chans'[c].consumers[i].cb = "cancelled" <=>
                          \/ chans[c].consumers[i].cb = "cancelled"
                          \/ c = w /\ i \in hit
            ELSE last'.result = "rejected" /\ chans' = chans]_vars

\* The queue a getMessage step polls, as the broker holds it before the step.
Polled == broker[last'.arg].msgs

\* C21: getMessage on an empty queue fails with the no-message error and
\* changes nothing; on a queue with messages it returns the decoded payload
\* of the head message and removes that one message, leaving nothing to
\* acknowledge. After one send to an empty queue a getMessage returns what
\* was sent and a getMessage right after it fails. getMessage adds no
\* consumer and leaves the registry alone.
C21_Poll ==
    /\ [][last'.op = "getMessage" /\ last'.result # "rejected" =>
            /\ IF Polled = <<>>
               THEN last'.result = "no message" /\ broker' = broker
               ELSE /\ last'.result = "resolved"
                    /\ last'.content = safeJSON(Head(Polled).payload)
                    /\ broker' = [broker EXCEPT ![last'.arg].msgs = Tail(Polled)]
            /\ chans' = chans
            /\ queues' = queues /\ qobjs' = qobjs]_vars
    /\ [][/\ last'.op = "getMessage" /\ last'.result = "resolved"
          /\ counters.replies = 0
          => last'.content \in Messages]_vars
    /\ [][/\ last.op = "getMessage" /\ last.result = "resolved"
          /\ Len(outbox) = 1 /\ counters.replies = 0
          /\ last'.op = "getMessage" /\ last'.arg = last.arg
          => last'.result = "no message"]_vars

\* One message was sent to the empty queue and confirmed, a getMessage took
\* it and the getMessage after it has failed.
C21_Witness ==
    /\ last.op = "getMessage" /\ last.result = "no message"
    /\ Len(outbox) = 1 /\ outbox[1].by = "send" /\ outbox[1].state = "confirmed"
    /\ outbox[1].queue = last.arg
    /\ counters.replies = 0
    /\ broker[last.arg].msgs = <<>>

\* A message published to q is on its way: not yet confirmed, or waiting in
\* the queue.
Pending(q) ==
    \/ broker[q].msgs # <<>>
    \/ \E i \in 1..Len(outbox) :
          outbox[i].queue = q /\ outbox[i].state = "unconfirmed"

\* subscribe(q, cb) has attached a consumer to q.
Subscribed(q) ==
    \E c \in 1..Len(chans) : \E i \in 1..Len(chans[c].consumers) :
       chans[c].consumers[i].queue = q

\* The deliveries held by callbacks, over all channels.
RECURSIVE HeldIn(_)
HeldIn(chs) ==
    IF chs = <<>> THEN 0 ELSE Held(Head(chs).consumers) + HeldIn(Tail(chs))

\* C22: on a connected broker with fair delivery, every message published to
\* a created queue that has a subscriber, attached before or after the
\* publish, comes to be delivered to a callback with the content that was
\* published. A message whose callback called ack() is gone: the ack takes
\* it off the channel and puts nothing on the queue, a queue grows only by a
\* new publish, and after the ack of the only message published a
\* getMessage returns no message.
C22_RoundTrip ==
    /\ \A q \in AppQueues :
          (Pending(q) /\ Subscribed(q)) ~>
             (/\ last.op = "deliver.app" /\ last.arg = q
              /\ last.content \in Messages
              /\ ~Pending(q))
    /\ [][last'.op = "deliver.app" => last'.content \in Messages]_vars
    /\ [][last'.op = "message.ack" =>
            /\ broker' = broker
            /\ HeldIn(chans') = HeldIn(chans) - 1
            /\ Len(outbox) = 1 =>
                  getMessage(channel', chans', broker', last'.arg).result
                     # "resolved"]_vars
    /\ [][\A q \in AppQueues :
            Len(broker'[q].msgs) > Len(broker[q].msgs) =>
               last'.op = "publish.settle"]_vars

\* The one message published was confirmed and delivered to a subscriber,
\* and its callback has acknowledged it: it is neither queued nor held.
C22_Witness ==
    /\ last.op = "message.ack"
    /\ Len(outbox) = 1 /\ outbox[1].state = "confirmed"
    /\ ~Pending(outbox[1].queue)
    /\ HeldIn(chans) = 0
    /\ Subscribed(outbox[1].queue)

\* C23: however many times the setup procedures of a queue's channel have
\* run, the queue has the options it got the first time, the prefetch of the
\* channel is 1, and every subscribe call has exactly one active consumer on
\* the raw channel: none is missing once the channel is back, none is double.
C23_ReconnectIdempotent ==
    /\ [](\A c \in QueueChans :
            chans[c].up =>
               /\ chans[c].prefetch = 1
               /\ broker[chans[c].name].exists
               /\ broker[chans[c].name].opts = SetupOpts(c)
               /\ Len(chans[c].consumers) = ConsumeCount(chans[c].setups)
               /\ \A i \in 1..Len(chans[c].consumers) :
                     /\ chans[c].consumers[i].queue = chans[c].name
                     /\ chans[c].consumers[i].cb \in AppCallbacks
                     /\ \A j \in 1..Len(chans[c].consumers) :
                           chans[c].consumers[i].tag = chans[c].consumers[j].tag
                              => i = j)
    /\ [][last'.op = "chan.connect" =>
            \A q \in QueueNames :
               broker[q].exists =>
                  broker'[q].exists /\ broker'[q].opts = broker[q].opts]_vars

\* A queue's channel with a subscriber is back after a disconnect: its setup
\* procedures have run a second time and the consumer has a new tag.
C23_Witness ==
    /\ last.op = "chan.connect" /\ last.fx = <<"log">>
    /\ counters.disconnects >= 1
    /\ \E c \in QueueChans :
          /\ chans[c].name = last.arg
          /\ chans[c].up
          /\ ConsumeCount(chans[c].setups) >= 1
          /\ Len(chans[c].consumers) = ConsumeCount(chans[c].setups)
          /\ chans[c].consumers[1].tag > 1

\* The wrapper RPC.init() subscribed to, 0 before that.
ReplyChan == IF rpcInit.pc = "done" THEN rpcInit.replyQ ELSE 0

\* C24: a disconnect and the reconnect after it leave the pending-call table
\* and every promise as they were; once the reply queue's channel is back it
\* has its one reply consumer again, with no new subscribe call; and a reply
\* delivered then for a pending id resolves that request with its content.
C24_SurvivesReconnect ==
    /\ [][last'.op \in {"conn.disconnect", "conn.connect", "chan.connect"} =>
            callbacks' = callbacks /\ reqs' = reqs]_vars
    /\ [](ReplyChan # 0 =>
            /\ ConsumeCount(chans[ReplyChan].setups) = 1
            /\ chans[ReplyChan].up =>
                  /\ Len(chans[ReplyChan].consumers) = 1
                  /\ chans[ReplyChan].consumers[1].queue = ReplyQueue
                  /\ chans[ReplyChan].consumers[1].cb = "rpc")
    /\ [][/\ Delivered
          /\ counters.disconnects >= 1
          /\ last'.cid \in DOMAIN callbacks
          => LET i == callbacks[last'.cid] IN
             /\ reqs[i].state = "PENDING"
             /\ reqs'[i].state = "RESOLVED"
             /\ reqs'[i].value = HeadContent
             /\ last'.cid \notin DOMAIN callbacks']_vars

\* The reply queue's channel has just come back after a disconnect, with its
\* consumer under a new tag, while a request is still waiting for its reply.
C24_Witness ==
    /\ last.op = "chan.connect" /\ last.fx = <<"log">>
    /\ ReplyChan # 0
    /\ last.arg = chans[ReplyChan].name
    /\ chans[ReplyChan].up
    /\ Len(chans[ReplyChan].consumers) = 1
    /\ chans[ReplyChan].consumers[1].tag > 1
    /\ \E i \in Requests :
          reqs[i].state = "PENDING" /\ reqs[i].cid \in DOMAIN callbacks

\* What the consumer of a payload is to see: the value whose JSON text the
\* payload is, or the payload's text as a string when it is not JSON.
DecodedAs(payload, value) ==
    IF IsJSON(payload)
    THEN JSONstringify(value) = payload
    ELSE value = Str(Join(payload))

\* C25: every delivery, JSON or not, calls the callback exactly once, with
\* the decoded value or else the raw text; a payload that is not JSON raises
\* no error and leaves every consumer attached; getMessage decodes the same
\* way.
C25_DecodeNeverFails ==
    /\ [][last'.op = "deliver.app" =>
            /\ last'.fx = <<"call">>
            /\ DecodedAs(Head(Polled).payload, last'.content)
            /\ \A c \in 1..Len(chans) :
                  /\ chans'[c].up = chans[c].up
                  /\ Len(chans'[c].consumers) = Len(chans[c].consumers)
                  /\ \A i \in 1..Len(chans[c].consumers) :
                        chans'[c].consumers[i].cb = chans[c].consumers[i].cb]_vars
    /\ [][last'.op = "getMessage" /\ last'.result = "resolved" =>
            DecodedAs(Head(Polled).payload, last'.content)]_vars
    /\ [][last'.op = "getMessage" /\ Polled # <<>> =>
            last'.result \in {"resolved", "rejected"}]_vars

\* One callback was handed a payload that is not JSON, as a string, and
\* after that another one was handed the JSON message that came behind it.
C25_Witness ==
    /\ last.op = "deliver.app" /\ last.fx = <<"call">>
    /\ last.content.type = "object"
    /\ \E c \in QueueChans :
          /\ Len(chans[c].consumers) = 2
          /\ Len(chans[c].consumers[1].unacked) = 1
          /\ ~IsJSON(chans[c].consumers[1].unacked[1].payload)
          /\ Len(chans[c].consumers[2].unacked) = 1
          /\ IsJSON(chans[c].consumers[2].unacked[1].payload)

\* The connections a step reports as disconnected.
Dropped == {k \in 1..Len(conns) :
              conns[k].state # "disconnected" /\ conns'[k].state = "disconnected"}

\* C26: a disconnect while init() waits for the first connect rejects init()
\* with the error of the notification; every disconnect notification, early
\* or late, emits one error event; and no disconnect makes the core call
\* connect: connections are opened by init() calls alone.
C26_Disconnect ==
    /\ [][last'.op = "conn.disconnect" =>
            /\ Count(last'.fx, "error") = 1
            /\ Count(last'.fx, "connect") = 0
            /\ Len(conns') = Len(conns)
            /\ \A k \in Dropped :
                  IF conns[k].settled = "pending"
                  THEN /\ conns'[k].settled = "rejected"
                       /\ Count(last'.fx, "reject") = 1
                       /\ last'.result = "init rejected"
                       /\ client' = 0
                  ELSE /\ conns'[k].settled = conns[k].settled
                       /\ client' = client]_vars
    /\ [][Len(conns') # Len(conns) => last'.op = "init"]_vars

\* The connection dropped before it was ever up: init() is rejected and no
\* client is stored. The drop was reported once.
C26_Witness ==
    /\ last.op = "conn.disconnect"
    /\ last.fx = <<"error", "reject">>
    /\ last.result = "init rejected"
    /\ client = 0
    /\ Len(conns) = 1 /\ conns[1].settled = "rejected"

\* The channels init() asked for.
GlobalChans == {c \in 1..Len(chans) : chans[c].owner = "init"}

\* C27 (as claimed): whatever init() calls are made and however they
\* interleave, the transport's connect is called at most once and at most one
\* global channel is created.
C27_OneConnection ==
    Len(conns) <= 1 /\ Cardinality(GlobalChans) <= 1

\* createQueue(q) has resolved at least once.
Created(q) ==
    \E c \in QueueChans : chans[c].name = q /\ chans[c].settled = "resolved"

\* C28 (as claimed): from the moment a createQueue(q) has resolved, the
\* registry holds a channel for q that publish, subscribe and unsubscribe can
\* use, also while a later createQueue(q) is waiting for its channel and
\* after such a call has failed.
C28_RegistryStable ==
    \A q \in AppQueues : Created(q) => PublishChannel(queues, qobjs, q) # 0

\* The (channel, consumer) pairs whose oldest held delivery a step settled.
Settled ==
    {<<c, i>> \in (1..Len(chans)) \X Consumers :
        /\ i <= Len(chans[c].consumers)
        /\ chans[c].consumers[i].unacked # <<>>
        /\ chans'[c].consumers[i].unacked = Tail(chans[c].consumers[i].unacked)}

\* C29 (as claimed): every ack() and nack() a callback makes settles the
\* delivery it was handed, on the channel that delivered it, and no other
\* delivery: exactly one held delivery, of a consumer of that queue, is
\* settled by the call.
C29_AckOwnDelivery ==
    [][last'.op \in {"message.ack", "message.nack"} =>
         /\ Cardinality(Settled) = 1
         /\ \A p \in Settled : chans[p[1]].consumers[p[2]].queue = last'.arg
         /\ HeldIn(chans') = HeldIn(chans) - 1]_vars

\* The step just taken handled a reply whose id was in the table.
Matched == Delivered /\ last'.cid \in DOMAIN callbacks

\* C30: the keys of the pending-call table are the ids request() issued
\* less those whose matching reply was handled. request() adds one new key
\* and leaves the other entries alone, a matched reply removes its own key
\* and no other, and nothing else (init, an unmatched reply, a failed
\* publish, a disconnect, a reconnect) changes the table.
C30_TableAccounting ==
    /\ [](DOMAIN callbacks =
            {reqs[i].cid : i \in {j \in Requests : reqs[j].state = "PENDING"}})
    /\ [][last'.op = "rpc.request" =>
            /\ last'.cid \notin DOMAIN callbacks
            /\ DOMAIN callbacks' = DOMAIN callbacks \cup {last'.cid}
            /\ \A c \in DOMAIN callbacks : callbacks'[c] = callbacks[c]]_vars
    /\ [][Matched =>
            /\ DOMAIN callbacks' = DOMAIN callbacks \ {last'.cid}
            /\ \A c \in DOMAIN callbacks' : callbacks'[c] = callbacks[c]]_vars
    /\ [][callbacks' # callbacks => last'.op = "rpc.request" \/ Matched]_vars

\* After a disconnect, with one request answered and one still waiting, a
\* reply that matches nothing has been handled: the table holds the waiting
\* request alone.
C30_Witness ==
    /\ last.op = "deliver"
    /\ \A i \in Requests : reqs[i].cid # last.cid
    /\ counters.disconnects >= 1
    /\ Len(reqs) = 2
    /\ reqs[1].state = "RESOLVED" /\ reqs[2].state = "PENDING"
    /\ DOMAIN callbacks = {reqs[2].cid}

\* The contents a reply can carry.
ReplyContents == {safeJSON(p) : p \in ReplyPayloads}

\* C31: the promise of request() is never rejected: it is pending, or
\* resolved with the content of a reply. When the publish of request() fails,
\* for want of a registry entry for the request queue or in the transport,
\* the promise stays pending, its resolver stays in the table, and the
\* failure reaches the caller through nothing but an error event.
C31_NeverRejects ==
    /\ [](\A i \in Requests :
            \/ reqs[i].state = "PENDING" /\ reqs[i].calls = 0
            \/ reqs[i].state = "RESOLVED" /\ reqs[i].value \in ReplyContents)
    /\ [][last'.op = "rpc.request" =>
            /\ last'.result = "pending"
            /\ Len(reqs') = Len(reqs) + 1
            /\ reqs'[Len(reqs')].state = "PENDING"
            /\ last'.cid \in DOMAIN callbacks'
            /\ PublishChannel(queues, qobjs, RequestQueue) = 0 =>
                  Count(last'.fx, "sendToQueue") = 0 /\ outbox' = outbox]_vars
    /\ [][\A i \in 1..Len(outbox) :
            outbox[i].by = "rpc" /\ outbox[i].state = "unconfirmed"
               /\ outbox'[i].state = "failed" =>
               /\ reqs' = reqs
               /\ callbacks' = callbacks
               /\ last'.result = "resolved"
               /\ Count(last'.fx, "error") = 1]_vars

\* request() was called before RPC.init(): its publish found no registry
\* entry and sent nothing, and the promise is pending with its resolver in
\* the table.
C31_Witness ==
    /\ last.op = "rpc.request"
    /\ Count(last.fx, "throw") = 1
    /\ rpcInit.pc = "idle"
    /\ queues[RequestQueue] = 0
    /\ reqs[Len(reqs)].state = "PENDING"
    /\ last.cid \in DOMAIN callbacks
    /\ outbox = <<>>

\* C32 (as claimed): once unsubscribe has resolved for the consumer of a
\* subscribe call, that call's callback is not invoked again, whether or not
\* the channel disconnects and reconnects: with one subscribe call made and
\* its consumer cancelled, nothing is delivered to a callback.
C32_UnsubscribePermanent ==
    [][last'.op = "deliver.app" /\ SubscribeCalls = 1 =>
          counters.cancels = 0]_vars

\* C33 (as claimed): when a call to init() resolves, the instance has a
\* connection and an open global channel, so that send and getMessage have a
\* channel to use; also for a call made while an earlier init() is under way
\* or after one that got the connection and no global channel.
C33_InitReady ==
    last.op = "init" /\ last.result = "resolved" =>
       /\ client # 0
       /\ channel # 0
       /\ chans[channel].up
       /\ ~send(channel, outbox, OtherQueue, Obj("a=1"), NoOptions, TRUE).threw
       /\ getMessage(channel, chans, broker, OtherQueue).fx # <<"throw">>

\* The channels createQueue(q) calls have asked for.
ChansOf(q) == {c \in QueueChans : chans[c].name = q}

\* C34 (as claimed): a createQueue(q) that fails leaves the registry as it
\* was: a name whose every createQueue call has failed is absent from the
\* registry, and every name the registry holds has a channel recorded.
C34_FailureLeavesRegistry ==
    \A q \in AppQueues :
       /\ queues[q] # 0 => qobjs[queues[q]].channel # 0
       /\ (\/ last.op = "createQueue" /\ last.arg = q /\ last.result = "rejected"
           \/ ChansOf(q) # {})
          /\ (\A c \in ChansOf(q) : chans[c].settled = "rejected")
          => queues[q] = 0

\* Some channel has a consume procedure or a consumer for queue q.
Attached(q) ==
    \E c \in 1..Len(chans) :
       \/ \E i \in 1..Len(chans[c].setups) :
             chans[c].setups[i].kind = "consume" /\ chans[c].setups[i].queue = q
       \/ \E i \in 1..Len(chans[c].consumers) : chans[c].consumers[i].queue = q

\* C35: subscribe for a name no createQueue call of this instance has named
\* throws; it attaches no consumer, registers no setup procedure on any
\* channel and leaves the registry alone, so that nothing is ever delivered
\* to its callback.
C35_SubscribeUnknown ==
    /\ [][last'.op = "subscribe" /\ queues[last'.arg] = 0 =>
            /\ last'.result = "threw"
            /\ last'.fx = <<"throw">>
            /\ chans' = chans
            /\ queues' = queues /\ qobjs' = qobjs
            /\ broker' = broker
            /\ counters' = counters]_vars
    /\ [](\A q \in QueueNames : queues[q] = 0 => ~Attached(q))

\* subscribe has thrown for a name the registry does not hold, while the
\* global channel is open and the declared queue has a consumer.
C35_Witness ==
    /\ last.op = "subscribe" /\ last.result = "threw"
    /\ queues[last.arg] = 0
    /\ channel # 0 /\ chans[channel].up
    /\ Attached(OtherQueue)
    /\ ~Attached(last.arg)

====
